---- MODULE Spec2Model ----
(***************************************************************************)
(* Fetch-cache pipeline of the zKillboard statistics tool.                 *)
(*                                                                         *)
(* The model follows ZKillboardAPI.getAllKills / getAllLosses and the      *)
(* per-page getKills / getLosses (the two pairs differ only in the URL and *)
(* in the cache file, which the variable kind selects), the retry wrapper  *)
(* configured in the constructor, getESIKillmailDetail, and the part of    *)
(* runStats that consumes the fetched records.                             *)
(*                                                                         *)
(* Environment.  The list endpoint serves a fixed sequence of non-empty    *)
(* pages followed by empty pages; a list request may also fail or carry a  *)
(* body that is not an array.  The detail endpoint is keyed by             *)
(* (killmail_id, hash): a request carrying the hash the killboard assigned *)
(* to the ID may succeed or fail, a request carrying any other hash fails. *)
(* The process can be killed at every suspension point (await).  The tool  *)
(* is invoked any number of times, each time for the same partition.       *)
(***************************************************************************)
EXTENDS Integers, Sequences, FiniteSets, TLC

\* ---------------------------------------------------------------- bounds
\* Record IDs are 1..MaxId; a listing serves at most MaxItems summaries in
\* all, spread over any number of non-empty pages of any length.
MaxId == 2
MaxItems == 2

\* Character IDs 1..MaxCharId are the ones a cache may already hold and a
\* batch response may leave out or return under another category; the largest
\* name lookup needs MaxBatches batch requests.
MaxCharId == 2
MaxBatches == 3

\* The aggregator folds at most MaxRecords records, each with at most
\* MaxAttackers attackers.
MaxRecords == 2
MaxAttackers == 2

\* The --corp option is a string of at most MaxOptLen characters.
MaxOptLen == 3

\* A long listing serves at most MaxListed non-empty pages.
MaxListed == 11

\* ------------------------------------------------------ program constants
MAX_RETRY_COUNT == 3
PAGE_DELAY_MS == 2000
CAPSULE_SHIP_ID == 670
BATCH_SIZE == 1000
\* stats.ts line 10; the source literal is the Chinese ship name.
CAPSULE_SHIP_NAME == "Capsule"
\* runStats: new ZKillboardAPI({ ..., maxPages: 10, ... })
maxPages == 10

VARIABLES
    listing,          \* list endpoint: the non-empty pages, in page order
    disk,             \* cache directory: kind -> persisted partition (ID -> record)
    kind,             \* "kills" (getAllKills) or "losses" (getAllLosses)
    pc,               \* position of the running invocation
    page,             \* getAllKills: let page
    retryCount,       \* axios-retry state of the list request in flight
    waits,            \* retry delays (ms) slept for the list request in flight
    lastError,        \* the error of the last failed attempt of the list request in flight
    data,             \* getKills: response.data of the current page
    needFetch,        \* getKills: the misses not yet requested, head in flight
    cachedKillmails,  \* getKills: working copy of the partition
    allKills,         \* getAllKills: accumulated result
    returned,         \* runStats: <<value returned by getAllKills>>, <<>> before
    report,           \* runStats: TRUE once the report file is written
    pageDelays,       \* delays (ms) slept between pages in this invocation
    listReqs,         \* history: pages of the list requests of this invocation
    listResps,        \* history: what each list request finally yielded
    fetchLog,         \* history: detail requests of this invocation, with outcome
    prev,             \* history: <<summary of the invocation before this one>>, or <<>>
    unreadable,       \* cache directory: the kinds whose partition file does not parse
    jitter,           \* the delay (ms) slept after the latest detail request, 0 before
    totalKills,       \* aggregator: stats.totalKills (totalLosses) of the report
    characterFile,    \* cache directory: characters.json (ID -> name)
    memoryCache,      \* ESI: this.memoryCache
    esiPc,            \* position of the getCharacterNames call
    characterIds,     \* getCharacterNames: the argument
    fileCache,        \* getCharacterNames: working copy of characters.json
    uncachedIds,      \* getCharacterNames: the IDs found in neither cache
    offset,           \* getCharacterNames: let i of the batch loop
    names,            \* getCharacterNames: the result mapping
    batchLog,         \* history: the batch requests of this call, with outcome
    memAtCall,        \* history: memoryCache when this call started
    fileAtCall,       \* history: characters.json as this call read it
    isLosses,         \* runStats: TRUE for the loss report (LossStatistics)
    stats,            \* KillmailStats / LossStatistics: this.stats
    characterNames,   \* KillmailStats / LossStatistics: this.characterNames
    curKillmail,      \* processKillmails: the record of the latest iteration
    statsBefore,      \* history: this.stats before the latest iteration
    processed,        \* history: number of records folded in
    excluded,         \* history: how many of them had an escape-pod victim
    participantOrder, \* this.stats.participants: the keys in insertion order
    ranking,          \* the report: the latest getParticipantRanking call, or Null
    corp,             \* runStats: options.corp, a string of characters
    startPc,          \* runStats: "start", "exit1" after process.exit(1), "fetch"
    apiCorporationID, \* ZKillboardAPI: config.corporationID, Null before new
    esiData,          \* transformESIResponse: the detail response body, or Null
    transformed       \* transformESIResponse: its result, not yet aggregated

fetchVars == <<listing, disk, kind, pc, page, retryCount, waits, lastError,
               data, needFetch, cachedKillmails, allKills, returned, report,
               pageDelays, listReqs, listResps, fetchLog, prev,
               unreadable, jitter, totalKills>>

esiVars == <<characterFile, memoryCache, esiPc, characterIds, fileCache,
             uncachedIds, offset, names, batchLog, memAtCall, fileAtCall>>

statsVars == <<isLosses, stats, characterNames, curKillmail, statsBefore,
               processed, excluded, participantOrder, ranking>>

runVars == <<corp, startPc, apiCorporationID, esiData, transformed>>

vars == <<fetchVars, esiVars, statsVars, runVars>>

\* ------------------------------------------------------------ environment
Ids == 1..MaxId
Kinds == {"kills", "losses"}

\* The hash the killboard assigned to a record, and a hash that belongs to
\* no record.
HashOf(id) == id
WrongHash == MaxId + 1

RECURSIVE Concat(_)
Concat(ss) == IF ss = <<>> THEN <<>> ELSE Head(ss) \o Concat(Tail(ss))

Summaries ==
    UNION {{[killmail_id |-> i, hash |-> h] : h \in {HashOf(i), WrongHash}} : i \in Ids}

\* The non-empty pages of at most n summaries.
Pages(n) == UNION {[1..m -> Summaries] : m \in 1..n}

\* Total number of summaries a listing serves.
Items(l) == Len(Concat(l))

\* The listings of at most n summaries: sequences of non-empty pages.
RECURSIVE ListingsUpTo(_)
ListingsUpTo(n) ==
    {<<>>} \cup UNION {{<<p>> \o rest : rest \in ListingsUpTo(n - Len(p))} : p \in Pages(n)}

Listings == ListingsUpTo(MaxItems)

\* Outcomes of one HTTP attempt of a list request: a status code, or an error
\* without response.
ListOutcomes == {"200", "200-not-array", "404", "429", "503", "network"}

\* null, as returned by getESIKillmailDetail on a failed request.
Null == [null |-> TRUE]

\* -------------------------------------------------------------- helpers
EmptyMap == [x \in {} |-> x]

Put(m, id, r) == [x \in DOMAIN m \cup {id} |-> IF x = id THEN r ELSE m[x]]

\* The page the list endpoint serves for page number n.
PageOf(n) == IF n \in 1..Len(listing) THEN listing[n] ELSE <<>>

\* victim.ship_type_id in the detail response for a record: record 1 is the
\* loss of an escape pod, the others are losses of a frigate.
ShipTypeOf(id) == IF id = 1 THEN 670 ELSE 587

\* transformESIResponse: the record built from a detail response.
transformESIResponse(killmailID, hash) ==
    [killID |-> killmailID, hash |-> hash, shipTypeID |-> ShipTypeOf(killmailID)]

\* Math.random() * 100, cut to whole milliseconds by the timer: 0 .. 99.
RandomMs == {0, 99}

\* Mutant: the random part of the delay is doubled.
detailDelayWide(r) == 100 + 2 * r

\* getKills, line 156: the delay slept after a detail request.
detailDelay(r) == 100 + r

\* KillmailStats.processKillmail / LossStatistics.processKillmail, as far as
\* the total goes: a record whose victim ship is the escape pod is skipped.
processKillmail(total, killmail) ==
    IF killmail.shipTypeID = CAPSULE_SHIP_ID THEN total ELSE total + 1

RECURSIVE processKillmails(_, _)
processKillmails(total, killmails) ==
    IF killmails = <<>> THEN total
    ELSE processKillmails(processKillmail(total, Head(killmails)), Tail(killmails))

\* retryCondition of the list client: network errors and 5xx of an idempotent
\* request, 429, and every status >= 500.
retryCondition(o) == o \in {"network", "429", "503"}

\* retryDelay of the list client.
retryDelay(n) == n * 1000

\* Mutant: one retry more.
shouldRetryOnceMore(o) == retryCount <= MAX_RETRY_COUNT /\ retryCondition(o)

\* axios-retry retries while fewer than `retries` retries were made.
shouldRetry(o) == retryCount < MAX_RETRY_COUNT /\ retryCondition(o)

\* Mutant: a cached record counts as a hit only when the hashes agree.
NeedFetchByHash(d, cached) ==
    SelectSeq(d, LAMBDA item : \/ item.killmail_id \notin DOMAIN cached
                               \/ cached[item.killmail_id].hash # item.hash)

\* getKills, lines 132-138: the summaries of the page that miss the partition.
NeedFetch(d, cached) == SelectSeq(d, LAMBDA item : item.killmail_id \notin DOMAIN cached)

\* Mutant: the cache hits of the page first, then the fetched records.
ValidKillsHitsFirst(d, cached) ==
    LET hit == SelectSeq(d, LAMBDA item : item.killmail_id \in DOMAIN disk[kind])
        new == SelectSeq(d, LAMBDA item : /\ item.killmail_id \in DOMAIN cached
                                          /\ item.killmail_id \notin DOMAIN disk[kind])
    IN [i \in 1..Len(hit) |-> cached[hit[i].killmail_id]]
         \o [i \in 1..Len(new) |-> cached[new[i].killmail_id]]

\* Mutant: the records of escape pods are left out of the page's result.
ValidKillsNoPods(d, cached) ==
    LET present == SelectSeq(d, LAMBDA item : /\ item.killmail_id \in DOMAIN cached
                                              /\ cached[item.killmail_id].shipTypeID # CAPSULE_SHIP_ID)
    IN [i \in 1..Len(present) |-> cached[present[i].killmail_id]]

\* getKills, lines 163-166: the records of the page, in page order.
ValidKills(d, cached) ==
    LET present == SelectSeq(d, LAMBDA item : item.killmail_id \in DOMAIN cached)
    IN [i \in 1..Len(present) |-> cached[present[i].killmail_id]]

\* readCache of the partition file of a kind, and getKills line 130: a file
\* that is absent or does not parse reads as null, which stands for {}.
ReadCache(k) == IF k \in unreadable THEN EmptyMap ELSE disk[k]

\* Mutant: the file is written with the records of the current page only.
SaveCachePageOnly(k, m) ==
    [disk EXCEPT ![k] = [x \in {y \in DOMAIN m : \E i \in 1..Len(data) : data[i].killmail_id = y} |-> m[x]]]

\* Mutant: the file is written once, when paging ends.
SaveCacheAtEnd(k, m) == IF data = <<>> THEN [disk EXCEPT ![k] = m] ELSE disk

\* Mutant: the partition file is never written.
SaveCacheSkipped(k, m) == disk

\* saveCache of the partition file of a kind.
SaveCache(k, m) == [disk EXCEPT ![k] = m]

Running == pc \in {"list", "drain", "save", "pageDelay", "done"}

\* ------------------------------------------------------------ aggregator
\* stats.ts.  A field a record leaves out is 0 (an ID, a number) or "" (a
\* name): the code tests these fields for truthiness only, and neither 0 nor
\* "" is a value the killboard assigns.

\* The corporation the tool is run for (runStats, corporationId).
corporationId == 1

\* KillmailStats constructor.
NewKillmailStats(corporationID) ==
    [corporationID |-> corporationID,
     totalKills |-> 0,
     participants |-> EmptyMap,
     shipTypes |-> EmptyMap]

\* LossStatistics constructor.
NewLossStatistics(corporationID) ==
    [corporationID |-> corporationID,
     totalLosses |-> 0,
     participants |-> EmptyMap,
     shipTypes |-> EmptyMap]

\* createLossStats / createStats, chosen by isLosses.
NewStats(losses) ==
    IF losses THEN NewLossStatistics(corporationId) ELSE NewKillmailStats(corporationId)

\* getCharacterName: undefined ("" here) when the mapping has no entry.
getCharacterName(characterID) ==
    IF characterID \in DOMAIN characterNames THEN characterNames[characterID] ELSE ""

\* Mutant: the name embedded in the record wins over the resolved name.
characterNameRawFirst(person) ==
    IF person.characterName # ""
    THEN person.characterName \o " (" \o ToString(person.characterID) \o ")"
    ELSE IF getCharacterName(person.characterID) # ""
    THEN getCharacterName(person.characterID)
    ELSE "Character_" \o ToString(person.characterID)

\* let characterName of processKillmail, for an attacker or a victim.
characterNameOf(person) ==
    IF getCharacterName(person.characterID) # ""
    THEN getCharacterName(person.characterID)
    ELSE IF person.characterName # ""
    THEN person.characterName \o " (" \o ToString(person.characterID) \o ")"
    ELSE "Character_" \o ToString(person.characterID)

\* const shipName of processKillmail.
shipNameOf(person) ==
    IF person.shipTypeName # "" THEN person.shipTypeName
    ELSE "Ship " \o ToString(person.shipTypeID)

\* m[k] = (m[k] || 0) + n
Add(m, k, n) == Put(m, k, (IF k \in DOMAIN m THEN m[k] ELSE 0) + n)

\* The participant aggregate of the attacker after "get or create" and the
\* name update (lines 79-97).
killParticipant(st, attacker) ==
    LET characterID == attacker.characterID
        created == IF characterID \in DOMAIN st.participants
                   THEN st.participants[characterID]
                   ELSE [characterID |-> characterID,
                         characterName |-> characterNameOf(attacker),
                         corporationID |-> attacker.corporationID,
                         corporationName |-> "",
                         totalKills |-> 0,
                         shipTypes |-> EmptyMap,
                         shipSignature |-> 0,
                         finalBlows |-> 0]
    IN [created EXCEPT !.characterName = characterNameOf(attacker)]

\* Mutant: the signature grows with every kill, not with every new ship.
killCreditSignaturePerKill(st, attacker) ==
    LET characterID == attacker.characterID
        shipTypeID == attacker.shipTypeID
        shipName == shipNameOf(attacker)
        participant == killParticipant(st, attacker)
        shipStats == IF shipTypeID \in DOMAIN st.shipTypes THEN st.shipTypes[shipTypeID]
                     ELSE [shipTypeID |-> shipTypeID,
                           shipTypeName |-> shipName,
                           totalKills |-> 0,
                           participants |-> EmptyMap]
    IN [st EXCEPT
          !.participants = Put(@, characterID,
              [participant EXCEPT
                  !.totalKills = @ + 1,
                  !.shipTypes = Add(@, shipName, 1),
                  !.shipSignature = @ + 1]),
          !.shipTypes = Put(@, shipTypeID,
              [shipStats EXCEPT
                  !.totalKills = @ + 1,
                  !.participants = Add(@, characterID, 1)])]

\* The credit for the ship the attacker flew (lines 110-136).
killCredit(st, attacker) ==
    LET characterID == attacker.characterID
        shipTypeID == attacker.shipTypeID
        shipName == shipNameOf(attacker)
        participant == killParticipant(st, attacker)
        previousCount == IF shipName \in DOMAIN participant.shipTypes
                         THEN participant.shipTypes[shipName] ELSE 0
        shipStats == IF shipTypeID \in DOMAIN st.shipTypes THEN st.shipTypes[shipTypeID]
                     ELSE [shipTypeID |-> shipTypeID,
                           shipTypeName |-> shipName,
                           totalKills |-> 0,
                           participants |-> EmptyMap]
    IN [st EXCEPT
          !.participants = Put(@, characterID,
              [participant EXCEPT
                  !.totalKills = @ + 1,
                  !.shipTypes = Put(@, shipName, previousCount + 1),
                  !.shipSignature = IF previousCount = 0 THEN @ + 1 ELSE @]),
          !.shipTypes = Put(@, shipTypeID,
              [shipStats EXCEPT
                  !.totalKills = @ + 1,
                  !.participants = Add(@, characterID, 1)])]

\* if (attacker.finalBlow) participant.finalBlows++ (lines 140-142).
killFinalBlow(st, attacker) ==
    IF attacker.finalBlow
    THEN [st EXCEPT !.participants[attacker.characterID].finalBlows = @ + 1]
    ELSE st

\* Mutant: an attacker of any corporation is credited.
killAttackerAnyCorporation(st, attacker) ==
    IF attacker.characterID = 0 THEN st
    ELSE IF attacker.shipTypeID = 0
    THEN killFinalBlow([st EXCEPT !.participants =
                           Put(@, attacker.characterID, killParticipant(st, attacker))],
                       attacker)
    ELSE IF shipNameOf(attacker) = CAPSULE_SHIP_NAME
    THEN [st EXCEPT !.participants =
             Put(@, attacker.characterID, killParticipant(st, attacker))]
    ELSE killFinalBlow(killCredit(st, attacker), attacker)

\* Mutant: the ship name is not compared with the escape-pod name.
killAttackerPodCredited(st, attacker) ==
    IF attacker.corporationID # st.corporationID THEN st
    ELSE IF attacker.characterID = 0 THEN st
    ELSE IF attacker.shipTypeID = 0
    THEN killFinalBlow([st EXCEPT !.participants =
                           Put(@, attacker.characterID, killParticipant(st, attacker))],
                       attacker)
    ELSE killFinalBlow(killCredit(st, attacker), attacker)

\* One iteration of the loop over killmail.attackers (lines 61-143).
killAttacker(st, attacker) ==
    IF attacker.corporationID # st.corporationID THEN st
    ELSE IF attacker.characterID = 0 THEN st
    ELSE IF attacker.shipTypeID = 0
    THEN killFinalBlow([st EXCEPT !.participants =
                           Put(@, attacker.characterID, killParticipant(st, attacker))],
                       attacker)
    ELSE IF shipNameOf(attacker) = CAPSULE_SHIP_NAME
    THEN [st EXCEPT !.participants =
             Put(@, attacker.characterID, killParticipant(st, attacker))]
    ELSE killFinalBlow(killCredit(st, attacker), attacker)

\* The loop over killmail.attackers.
RECURSIVE killAttackers(_, _)
killAttackers(st, attackers) ==
    IF attackers = <<>> THEN st
    ELSE killAttackers(killAttacker(st, Head(attackers)), Tail(attackers))

\* Mutant: a record with an escape-pod victim is aggregated like any other.
KillmailStatsKeepsPods(st, killmail) ==
    killAttackers([st EXCEPT !.totalKills = @ + 1], killmail.attackers)

\* Mutant: a record counts only when it lists an attacker.
KillmailStatsCountsAttacked(st, killmail) ==
    IF killmail.victim.shipTypeID = CAPSULE_SHIP_ID THEN st
    ELSE IF killmail.attackers = <<>> THEN st
    ELSE killAttackers([st EXCEPT !.totalKills = @ + 1], killmail.attackers)

\* KillmailStats.processKillmail (lines 47-144).  attackers is an array in
\* every record transformESIResponse builds (api.ts line 282).
KillmailStatsProcessKillmail(st, killmail) ==
    IF killmail.victim.shipTypeID = CAPSULE_SHIP_ID THEN st
    ELSE killAttackers([st EXCEPT !.totalKills = @ + 1], killmail.attackers)

\* The participant aggregate of the victim after "get or create" and the
\* name update (lines 292-310).
lossParticipant(st, victim) ==
    LET characterID == victim.characterID
        created == IF characterID \in DOMAIN st.participants
                   THEN st.participants[characterID]
                   ELSE [characterID |-> characterID,
                         characterName |-> characterNameOf(victim),
                         corporationID |-> victim.corporationID,
                         corporationName |-> "",
                         totalLosses |-> 0,
                         shipTypes |-> EmptyMap,
                         totalValue |-> 0,
                         damageTaken |-> 0]
    IN [created EXCEPT !.characterName = characterNameOf(victim)]

\* Mutant: the value of the loss is booked on the ship type only.
lossCreditShipValueOnly(st, killmail) ==
    LET victim == killmail.victim
        characterID == victim.characterID
        shipTypeID == victim.shipTypeID
        shipName == shipNameOf(victim)
        participant == lossParticipant(st, victim)
        value == killmail.zkb.totalValue
        shipStats == IF shipTypeID \in DOMAIN st.shipTypes THEN st.shipTypes[shipTypeID]
                     ELSE [shipTypeID |-> shipTypeID,
                           shipTypeName |-> shipName,
                           totalLosses |-> 0,
                           totalValue |-> 0,
                           participants |-> EmptyMap]
    IN [st EXCEPT
          !.participants = Put(@, characterID,
              [participant EXCEPT
                  !.totalLosses = @ + 1,
                  !.shipTypes = Add(@, shipName, 1)]),
          !.shipTypes = Put(@, shipTypeID,
              [shipStats EXCEPT
                  !.totalLosses = @ + 1,
                  !.totalValue = @ + value,
                  !.participants = Add(@, characterID, 1)])]

\* Mutant: the loss is booked on the ship type and in the participant's
\* per-ship map, the participant's own count is left.
lossCreditShipCountOnly(st, killmail) ==
    LET victim == killmail.victim
        characterID == victim.characterID
        shipTypeID == victim.shipTypeID
        shipName == shipNameOf(victim)
        participant == lossParticipant(st, victim)
        value == killmail.zkb.totalValue
        shipStats == IF shipTypeID \in DOMAIN st.shipTypes THEN st.shipTypes[shipTypeID]
                     ELSE [shipTypeID |-> shipTypeID,
                           shipTypeName |-> shipName,
                           totalLosses |-> 0,
                           totalValue |-> 0,
                           participants |-> EmptyMap]
    IN [st EXCEPT
          !.participants = Put(@, characterID,
              [participant EXCEPT
                  !.shipTypes = Add(@, shipName, 1),
                  !.totalValue = @ + value]),
          !.shipTypes = Put(@, shipTypeID,
              [shipStats EXCEPT
                  !.totalLosses = @ + 1,
                  !.totalValue = @ + value,
                  !.participants = Add(@, characterID, 1)])]

\* The booking of the lost ship (lines 322-347); zkb.totalValue || 0.
lossCredit(st, killmail) ==
    LET victim == killmail.victim
        characterID == victim.characterID
        shipTypeID == victim.shipTypeID
        shipName == shipNameOf(victim)
        participant == lossParticipant(st, victim)
        value == killmail.zkb.totalValue
        shipStats == IF shipTypeID \in DOMAIN st.shipTypes THEN st.shipTypes[shipTypeID]
                     ELSE [shipTypeID |-> shipTypeID,
                           shipTypeName |-> shipName,
                           totalLosses |-> 0,
                           totalValue |-> 0,
                           participants |-> EmptyMap]
    IN [st EXCEPT
          !.participants = Put(@, characterID,
              [participant EXCEPT
                  !.totalLosses = @ + 1,
                  !.shipTypes = Add(@, shipName, 1),
                  !.totalValue = @ + value]),
          !.shipTypes = Put(@, shipTypeID,
              [shipStats EXCEPT
                  !.totalLosses = @ + 1,
                  !.totalValue = @ + value,
                  !.participants = Add(@, characterID, 1)])]

\* if (victim.damageTaken) participant.damageTaken += ... (lines 351-353).
lossDamage(st, victim) ==
    [st EXCEPT !.participants[victim.characterID].damageTaken = @ + victim.damageTaken]

\* LossStatistics.processKillmail (lines 263-354).
LossStatisticsProcessKillmail(st, killmail) ==
    LET victim == killmail.victim
        counted == [st EXCEPT !.totalLosses = @ + 1]
    IN IF victim.corporationID # st.corporationID THEN st
       ELSE IF victim.characterID = 0 THEN st
       ELSE IF victim.shipTypeID = CAPSULE_SHIP_ID THEN st
       ELSE IF victim.shipTypeID = 0
       THEN lossDamage([counted EXCEPT !.participants =
                           Put(@, victim.characterID, lossParticipant(st, victim))],
                       victim)
       ELSE IF shipNameOf(victim) = CAPSULE_SHIP_NAME
       THEN [counted EXCEPT !.participants =
                Put(@, victim.characterID, lossParticipant(st, victim))]
       ELSE lossDamage(lossCredit(counted, killmail), victim)

\* No aggregation in progress: a new aggregator of the report's kind.
IdleStats ==
    /\ isLosses = (kind = "losses")
    /\ stats = NewStats(isLosses)
    /\ characterNames = EmptyMap
    /\ curKillmail = Null
    /\ statsBefore = stats
    /\ processed = 0
    /\ excluded = 0
    /\ participantOrder = <<>>
    /\ ranking = Null

\* ------------------------------------------------------------------ Init
\* The fetch side before the first invocation.
IdleFetch ==
    /\ disk = [k \in Kinds |-> EmptyMap]
    /\ kind \in Kinds
    /\ pc = "idle"
    /\ page = 1
    /\ retryCount = 0
    /\ waits = <<>>
    /\ lastError = "none"
    /\ data = <<>>
    /\ needFetch = <<>>
    /\ cachedKillmails = EmptyMap
    /\ allKills = <<>>
    /\ returned = <<>>
    /\ report = FALSE
    /\ pageDelays = <<>>
    /\ listReqs = <<>>
    /\ listResps = <<>>
    /\ fetchLog = <<>>
    /\ prev = <<>>
    /\ unreadable \in SUBSET {kind}
    /\ jitter = 0
    /\ totalKills = 0

InitFetch ==
    /\ listing \in Listings
    /\ IdleFetch

\* A new ESI object (esi.ts line 66), no call of getCharacterNames in progress.
NewESI ==
    /\ memoryCache = EmptyMap
    /\ esiPc = "idle"
    /\ characterIds = <<>>
    /\ fileCache = EmptyMap
    /\ uncachedIds = <<>>
    /\ offset = 0
    /\ names = EmptyMap
    /\ batchLog = <<>>
    /\ memAtCall = EmptyMap
    /\ fileAtCall = EmptyMap

\* runStats has accepted --corp 1 and constructed the API object; no detail
\* response is being transformed.
IdleRun ==
    /\ corp = <<"1">>
    /\ startPc = "fetch"
    /\ apiCorporationID = corporationId
    /\ esiData = Null
    /\ transformed = Null

\* The fetch pipeline, run without name lookup (runStats line 126, no --names).
Init ==
    /\ InitFetch
    /\ IdleRun
    /\ NewESI
    /\ characterFile = EmptyMap
    /\ IdleStats

\* --------------------------------------------------------------- actions
\* Summary of the invocation that just ended, kept when the next one starts.
\* clean: getAllKills returned after reading every page of the listing.
RunSummary ==
    LET clean == pc = "exited" /\ \A i \in 1..Len(listResps) : listResps[i].status = "array"
    IN [kind |-> kind, clean |-> clean,
        result |-> IF clean THEN returned[1] ELSE <<>>,
        failed |-> {fetchLog[i].id : i \in {j \in 1..Len(fetchLog) : ~fetchLog[j].ok}}]

\* runStats up to the first list request: a new process, nothing in memory.
StartRun ==
    /\ pc \in {"idle", "exited", "aborted", "crashed"}
    /\ prev' = IF pc = "idle" THEN prev ELSE <<RunSummary>>
    /\ pc' = "list"
    /\ page' = 1
    /\ retryCount' = 0
    /\ waits' = <<>>
    /\ lastError' = "none"
    /\ data' = <<>>
    /\ needFetch' = <<>>
    /\ cachedKillmails' = EmptyMap
    /\ allKills' = <<>>
    /\ returned' = <<>>
    /\ report' = FALSE
    /\ pageDelays' = <<>>
    /\ listReqs' = <<1>>
    /\ listResps' = <<>>
    /\ fetchLog' = <<>>
    /\ jitter' = 0
    /\ totalKills' = 0
    /\ UNCHANGED <<unreadable>>
    /\ UNCHANGED <<esiVars, statsVars, runVars>>
    /\ UNCHANGED <<listing, disk, kind>>

\* Mutant: a partition file that does not parse is an error.
ListOkCacheStrict ==
    /\ pc = "list"
    /\ IF kind \in unreadable
       THEN /\ pc' = "aborted"
            /\ UNCHANGED <<data, cachedKillmails, needFetch>>
       ELSE /\ data' = PageOf(page)
            /\ cachedKillmails' = disk[kind]
            /\ needFetch' = NeedFetch(PageOf(page), disk[kind])
            /\ pc' = IF NeedFetch(PageOf(page), disk[kind]) = <<>> THEN "save" ELSE "drain"
    /\ listResps' = Append(listResps, [page |-> page, status |-> "array", raw |-> Len(PageOf(page))])
    /\ lastError' = "none"
    /\ UNCHANGED <<unreadable, jitter, totalKills>>
    /\ UNCHANGED <<esiVars, statsVars, runVars>>
    /\ UNCHANGED <<listing, disk, kind, page, retryCount, waits,
                   allKills, returned, report, pageDelays, listReqs, fetchLog, prev>>

\* getKills, lines 120-141, on a response whose body is an array.
ListOk ==
    /\ pc = "list"
    /\ LET d == PageOf(page)
           cached == ReadCache(kind)
           nf == NeedFetch(d, cached)
       IN /\ data' = d
          /\ cachedKillmails' = cached
          /\ needFetch' = nf
          /\ pc' = IF nf = <<>> THEN "save" ELSE "drain"
          /\ listResps' = Append(listResps, [page |-> page, status |-> "array", raw |-> Len(d)])
    /\ lastError' = "none"
    /\ UNCHANGED <<unreadable, jitter, totalKills>>
    /\ UNCHANGED <<esiVars, statsVars, runVars>>
    /\ UNCHANGED <<listing, disk, kind, page, retryCount, waits,
                   allKills, returned, report, pageDelays, listReqs, fetchLog, prev>>

\* getKills, lines 123-125, on a body that is not an array: getKills returns
\* rawCount 0 without touching the cache, and getAllKills stops paging.
ListNotArray ==
    /\ pc = "list"
    /\ pc' = "done"
    /\ lastError' = "none"
    /\ listResps' = Append(listResps, [page |-> page, status |-> "not-array", raw |-> 0])
    /\ UNCHANGED <<unreadable, jitter, totalKills>>
    /\ UNCHANGED <<esiVars, statsVars, runVars>>
    /\ UNCHANGED <<listing, disk, kind, page, retryCount, waits,
                   data, needFetch, cachedKillmails, allKills, returned, report,
                   pageDelays, listReqs, fetchLog, prev>>

\* The retry wrapper on a failed attempt it retries: it sleeps retryDelay and
\* sends the request again.
ListRetry(o) ==
    /\ pc = "list"
    /\ shouldRetry(o)
    /\ retryCount' = retryCount + 1
    /\ waits' = Append(waits, retryDelay(retryCount + 1))
    /\ lastError' = o
    /\ UNCHANGED <<unreadable, jitter, totalKills>>
    /\ UNCHANGED <<esiVars, statsVars, runVars>>
    /\ UNCHANGED <<listing, disk, kind, pc, page, data, needFetch,
                   cachedKillmails, allKills, returned, report, pageDelays,
                   listReqs, listResps, fetchLog, prev>>

\* Mutant: the error is caught and the page counts as empty.
ListFailSwallowed(o) ==
    /\ pc = "list"
    /\ ~shouldRetry(o)
    /\ pc' = "done"
    /\ lastError' = o
    /\ listResps' = Append(listResps, [page |-> page, status |-> "error", raw |-> 0])
    /\ UNCHANGED <<unreadable, jitter, totalKills>>
    /\ UNCHANGED <<esiVars, statsVars, runVars>>
    /\ UNCHANGED <<listing, disk, kind, page, retryCount, waits, data,
                   needFetch, cachedKillmails, allKills, returned, report,
                   pageDelays, listReqs, fetchLog, prev>>

\* A failed attempt that is not retried: client.get rejects, nothing catches
\* the error in getKills, getAllKills or runStats, and main's catch exits 1.
ListFail(o) ==
    /\ pc = "list"
    /\ ~shouldRetry(o)
    /\ pc' = "aborted"
    /\ lastError' = o
    /\ listResps' = Append(listResps, [page |-> page, status |-> "error", raw |-> 0])
    /\ UNCHANGED <<unreadable, jitter, totalKills>>
    /\ UNCHANGED <<esiVars, statsVars, runVars>>
    /\ UNCHANGED <<listing, disk, kind, page, retryCount, waits, data,
                   needFetch, cachedKillmails, allKills, returned, report,
                   pageDelays, listReqs, fetchLog, prev>>

\* What the drain loop does with the outcome of the detail request in flight
\* (getKills, lines 146-157): killmail is the record, or Null.
DrainStep(killmail) ==
    LET item == Head(needFetch)
    IN /\ cachedKillmails' = IF killmail # Null
                                THEN Put(cachedKillmails, item.killmail_id, killmail)
                                ELSE cachedKillmails
       /\ fetchLog' = Append(fetchLog, [page |-> page, id |-> item.killmail_id,
                                         hash |-> item.hash, ok |-> killmail # Null])
       /\ needFetch' = Tail(needFetch)
       /\ pc' = IF Tail(needFetch) = <<>> THEN "save" ELSE "drain"
       /\ \E r \in RandomMs : jitter' = detailDelay(r)
       /\ UNCHANGED <<unreadable, totalKills>>
       /\ UNCHANGED <<esiVars, statsVars, runVars>>
       /\ UNCHANGED <<listing, disk, kind, page, retryCount, waits, lastError,
                      data, allKills, returned, report, pageDelays, listReqs,
                      listResps, prev>>

\* getESIKillmailDetail, lines 255-256: the detail endpoint answers.
DetailOk ==
    /\ pc = "drain"
    /\ Head(needFetch).hash = HashOf(Head(needFetch).killmail_id)
    /\ DrainStep(transformESIResponse(Head(needFetch).killmail_id, Head(needFetch).hash))

\* Mutant: the error of a detail request is not caught.
DetailFailFatal ==
    /\ pc = "drain"
    /\ pc' = "aborted"
    /\ UNCHANGED <<unreadable, jitter, totalKills>>
    /\ UNCHANGED <<esiVars, statsVars, runVars>>
    /\ UNCHANGED <<listing, disk, kind, page, retryCount, waits, lastError,
                   data, needFetch, cachedKillmails, allKills, returned, report,
                   pageDelays, listReqs, listResps, fetchLog, prev>>

\* getESIKillmailDetail, lines 257-261: the request failed, null is returned.
DetailFail ==
    /\ pc = "drain"
    /\ DrainStep(Null)

\* Mutant: paging stops at a page that yields no record.
AfterPageStopsOnNoRecord(validKills, rawCount) ==
    IF Len(validKills) = 0
    THEN /\ pc' = "done"
         /\ UNCHANGED <<allKills, page>>
    ELSE /\ allKills' = allKills \o validKills
         /\ page' = page + 1
         /\ pc' = "pageDelay"

\* Mutant: paging stops after page maxPages.
AfterPageUpToMaxPages(validKills, rawCount) ==
    IF rawCount = 0
    THEN /\ pc' = "done"
         /\ UNCHANGED <<allKills, page>>
    ELSE /\ allKills' = allKills \o validKills
         /\ page' = page + 1
         /\ pc' = IF page >= maxPages THEN "done" ELSE "pageDelay"

\* Mutant: the loop does not look at the page it got.
AfterPageIgnored(validKills, rawCount) ==
    /\ pc' = pc
    /\ UNCHANGED <<allKills, page>>

\* What getAllKills does with the page getKills returned (lines 330-344).
AfterPage(validKills, rawCount) ==
    IF rawCount = 0
    THEN /\ pc' = "done"
         /\ UNCHANGED <<allKills, page>>
    ELSE /\ allKills' = allKills \o validKills
         /\ page' = page + 1
         /\ pc' = "pageDelay"

\* getKills, lines 159-168, then getAllKills, lines 330-342.
SavePage ==
    /\ pc = "save"
    /\ disk' = SaveCache(kind, cachedKillmails)
    /\ unreadable' = unreadable \ {kind}
    /\ AfterPage(ValidKills(data, cachedKillmails), Len(data))
    /\ UNCHANGED <<jitter, totalKills>>
    /\ UNCHANGED <<esiVars, statsVars, runVars>>
    /\ UNCHANGED <<listing, kind, retryCount, waits, lastError, data, needFetch,
                   cachedKillmails, returned, report, pageDelays, listReqs,
                   listResps, fetchLog, prev>>

\* Mutant: the delay between pages is skipped after a page of cache hits.
NextPageDelayAfterMissesOnly ==
    /\ pc = "pageDelay"
    /\ pageDelays' = IF \E i \in 1..Len(fetchLog) : fetchLog[i].page = page - 1
                      THEN Append(pageDelays, PAGE_DELAY_MS)
                      ELSE pageDelays
    /\ pc' = "list"
    /\ retryCount' = 0
    /\ waits' = <<>>
    /\ listReqs' = Append(listReqs, page)
    /\ UNCHANGED <<unreadable, jitter, totalKills>>
    /\ UNCHANGED <<esiVars, statsVars, runVars>>
    /\ UNCHANGED <<listing, disk, kind, page, lastError, data, needFetch,
                   cachedKillmails, allKills, returned, report, listResps,
                   fetchLog, prev>>

\* getAllKills, line 344 and the next iteration's line 328.
NextPage ==
    /\ pc = "pageDelay"
    /\ pageDelays' = Append(pageDelays, PAGE_DELAY_MS)
    /\ pc' = "list"
    /\ retryCount' = 0
    /\ waits' = <<>>
    /\ listReqs' = Append(listReqs, page)
    /\ UNCHANGED <<unreadable, jitter, totalKills>>
    /\ UNCHANGED <<esiVars, statsVars, runVars>>
    /\ UNCHANGED <<listing, disk, kind, page, lastError, data, needFetch,
                   cachedKillmails, allKills, returned, report, listResps,
                   fetchLog, prev>>

\* runStats after getAllKills returned: no report for an empty result,
\* otherwise the records are aggregated and the report file is written.
Deliver ==
    /\ pc = "done"
    /\ returned' = <<allKills>>
    /\ report' = (Len(allKills) > 0)
    /\ totalKills' = processKillmails(0, allKills)
    /\ pc' = "exited"
    /\ UNCHANGED <<unreadable, jitter>>
    /\ UNCHANGED <<esiVars, statsVars, runVars>>
    /\ UNCHANGED <<listing, disk, kind, page, retryCount, waits, lastError,
                   data, needFetch, cachedKillmails, allKills, pageDelays,
                   listReqs, listResps, fetchLog, prev>>

\* The process is killed at a suspension point: memory is lost, files stay.
Crash ==
    /\ Running
    /\ pc' = "crashed"
    /\ data' = <<>>
    /\ needFetch' = <<>>
    /\ cachedKillmails' = EmptyMap
    /\ allKills' = <<>>
    /\ retryCount' = 0
    /\ waits' = <<>>
    /\ jitter' = 0
    /\ UNCHANGED <<unreadable, totalKills>>
    /\ UNCHANGED <<esiVars, statsVars, runVars>>
    /\ UNCHANGED <<listing, disk, kind, page, lastError, returned, report,
                   pageDelays, listReqs, listResps, fetchLog, prev>>

Errors == ListOutcomes \ {"200", "200-not-array"}

Next ==
    \/ StartRun
    \/ ListOk
    \/ ListNotArray
    \/ \E o \in Errors : ListRetry(o)
    \/ \E o \in Errors : ListFail(o)
    \/ DetailOk
    \/ DetailFail
    \/ SavePage
    \/ NextPage
    \/ Deliver
    \/ Crash

Spec == Init /\ [][Next]_vars

\* ------------------------------------------------- name lookup (esi.ts)
\* Character IDs a cache may hold before a call, and the names on record.
CharIds == 1..MaxCharId

\* characters.json as another run of the tool may have left it.
CharFiles == UNION {[d -> {"b"}] : d \in SUBSET CharIds}

\* Duplicate-free sequences over a set: Array.from(new Set(...)).
RECURSIVE Arrangements(_)
Arrangements(S) ==
    IF S = {} THEN {<<>>}
    ELSE UNION {{<<x>> \o rest : rest \in Arrangements(S \ {x})} : x \in S}

\* The arguments of getCharacterNames: the members found in the records, a
\* few of them or a whole corporation.
SmallCalls == UNION {Arrangements(d) : d \in SUBSET CharIds}
LargeCalls ==
    {[j \in 1..n |-> j] :
        n \in {BATCH_SIZE, BATCH_SIZE + 1, MaxBatches * BATCH_SIZE - BATCH_SIZE \div 2}}
Calls == SmallCalls \cup LargeCalls

Min(a, b) == IF a < b THEN a ELSE b

\* Object.assign(target, source).
Assign(target, source) ==
    [x \in DOMAIN target \cup DOMAIN source |->
        IF x \in DOMAIN source THEN source[x] ELSE target[x]]

\* Mutant: the persisted cache is consulted before the in-process cache.
LookupFileFirst(id, file) == IF id \in DOMAIN file THEN file[id] ELSE memoryCache[id]

\* getCharacterNames, lines 92-96: the name of a cached ID.
Lookup(id, file) == IF id \in DOMAIN memoryCache THEN memoryCache[id] ELSE file[id]

\* getCharacterNames, lines 91-100: the IDs found in neither cache, in order.
Uncached(ids, file) ==
    SelectSeq(ids, LAMBDA id : id \notin DOMAIN memoryCache /\ id \notin DOMAIN file)

\* Mutant: a batch is one ID short.
BatchShort(ids, i) == SubSeq(ids, i + 1, Min(i + BATCH_SIZE - 1, Len(ids)))

\* getCharacterNames, line 107: uncachedIds.slice(i, i + 1000).
Batch(ids, i) == SubSeq(ids, i + 1, Min(i + BATCH_SIZE, Len(ids)))

\* The bodies POST /universe/names/ may answer a batch with, as a mapping
\* from the id of an entry to the entry.  A batch of a few IDs gets an entry
\* per ID, where an ID may be missing or belong to a corporation; a batch of
\* a large call gets a character entry for every ID.
Responses(batch) ==
    LET ids == {batch[j] : j \in 1..Len(batch)}
        answers == IF ids \subseteq CharIds
                   THEN [ids -> {"character", "corporation", "missing"}]
                   ELSE {[x \in ids |-> "character"]}
    IN {[x \in {y \in ids : f[y] # "missing"} |-> [category |-> f[x], name |-> "a"]] :
        f \in answers}

\* Mutant: entries of every category are accepted.
fetchNamesAnyCategory(resp) == [x \in DOMAIN resp |-> resp[x].name]

\* fetchNamesByIds, lines 139-149: the names of the entries of category
\* character.
fetchNamesByIds(resp) ==
    [x \in {y \in DOMAIN resp : resp[y].category = "character"} |-> resp[x].name]

\* A name lookup in flight, or its result not yet taken by the caller.
InCall == esiPc \in {"batch", "returned"}

\* runStats looks up a whole corporation once, with a new ESI object, and
\* ends; the same object serves several calls only for a few IDs.  A lookup
\* starts when no cache holds an ID outside CharIds.
Fresh(ids) ==
    /\ DOMAIN memoryCache \subseteq CharIds
    /\ DOMAIN characterFile \subseteq CharIds
    /\ ids \in LargeCalls => memoryCache = EmptyMap

\* getCharacterNames up to the first batch request (lines 84-108).
Call(ids) ==
    /\ esiPc = "idle"
    /\ Fresh(ids)
    /\ characterIds' = ids
    /\ batchLog' = <<>>
    /\ offset' = 0
    /\ memAtCall' = memoryCache
    /\ IF ids = <<>>
       THEN /\ names' = EmptyMap
            /\ esiPc' = "returned"
            /\ fileAtCall' = EmptyMap
            /\ fileCache' = EmptyMap
            /\ uncachedIds' = <<>>
            /\ UNCHANGED memoryCache
       ELSE LET file == characterFile
                hits == {ids[j] : j \in 1..Len(ids)} \cap (DOMAIN memoryCache \cup DOMAIN file)
            IN /\ fileAtCall' = file
               /\ fileCache' = file
               /\ names' = [id \in hits |-> Lookup(id, file)]
               /\ memoryCache' = Assign(memoryCache,
                                        [id \in hits \ DOMAIN memoryCache |-> file[id]])
               /\ uncachedIds' = Uncached(ids, file)
               /\ esiPc' = IF Uncached(ids, file) = <<>> THEN "returned" ELSE "batch"
    /\ UNCHANGED characterFile
    /\ UNCHANGED <<fetchVars, statsVars, runVars>>

\* getCharacterNames, lines 108-113, with the mapping fetchNamesByIds
\* returned for the batch in flight: after the last batch the file is saved.
BatchStep(batchNames, answer) ==
    /\ names' = Assign(names, batchNames)
    /\ fileCache' = Assign(fileCache, batchNames)
    /\ offset' = offset + BATCH_SIZE
    /\ batchLog' = Append(batchLog, [ids |-> Batch(uncachedIds, offset),
                                     ok |-> answer.ok,
                                     characters |-> answer.characters,
                                     others |-> answer.others])
    /\ IF offset + BATCH_SIZE < Len(uncachedIds)
       THEN /\ esiPc' = "batch"
            /\ UNCHANGED characterFile
       ELSE /\ esiPc' = "returned"
            /\ characterFile' = Assign(fileCache, batchNames)
    /\ UNCHANGED <<characterIds, uncachedIds, memAtCall, fileAtCall>>
    /\ UNCHANGED <<fetchVars, statsVars, runVars>>

\* Mutant: the accepted names of a batch are not kept by the ESI object.
BatchOkNotKept ==
    /\ esiPc = "batch"
    /\ UNCHANGED memoryCache
    /\ \E resp \in Responses(Batch(uncachedIds, offset)) :
          BatchStep(fetchNamesByIds(resp),
                    [ok |-> TRUE,
                     characters |-> {x \in DOMAIN resp : resp[x].category = "character"},
                     others |-> {x \in DOMAIN resp : resp[x].category # "character"}])

\* fetchNamesByIds, lines 129-149: the batch request is answered.
BatchOk ==
    /\ esiPc = "batch"
    /\ \E resp \in Responses(Batch(uncachedIds, offset)) :
          /\ memoryCache' = Assign(memoryCache, fetchNamesByIds(resp))
          /\ BatchStep(fetchNamesByIds(resp),
                       [ok |-> TRUE,
                        characters |-> {x \in DOMAIN resp : resp[x].category = "character"},
                        others |-> {x \in DOMAIN resp : resp[x].category # "character"}])

\* Mutant: the error of a batch request is not caught.
BatchFailRaises ==
    /\ esiPc = "batch"
    /\ esiPc' = "failed"
    /\ UNCHANGED <<characterFile, memoryCache, characterIds, fileCache, uncachedIds,
                   offset, names, batchLog, memAtCall, fileAtCall>>
    /\ UNCHANGED <<fetchVars, statsVars, runVars>>

\* fetchNamesByIds, lines 150-153: the batch request failed, {} is returned.
BatchFail ==
    /\ esiPc = "batch"
    /\ UNCHANGED memoryCache
    /\ BatchStep(EmptyMap, [ok |-> FALSE, characters |-> {}, others |-> {}])

\* The caller takes the result (runStats line 152, getCharacterName line 167).
Return ==
    /\ esiPc = "returned"
    /\ characterIds \in SmallCalls
    /\ esiPc' = "idle"
    /\ UNCHANGED <<characterFile, memoryCache, characterIds, fileCache, uncachedIds,
                   offset, names, batchLog, memAtCall, fileAtCall>>
    /\ UNCHANGED <<fetchVars, statsVars, runVars>>

\* The process ends, at a suspension point or at its end; the next one
\* constructs a new ESI object.
NewProcess ==
    /\ esiPc # "idle" \/ memoryCache # EmptyMap
    /\ memoryCache' = EmptyMap
    /\ esiPc' = "idle"
    /\ characterIds' = <<>>
    /\ fileCache' = EmptyMap
    /\ uncachedIds' = <<>>
    /\ offset' = 0
    /\ names' = EmptyMap
    /\ batchLog' = <<>>
    /\ memAtCall' = EmptyMap
    /\ fileAtCall' = EmptyMap
    /\ UNCHANGED characterFile
    /\ UNCHANGED <<fetchVars, statsVars, runVars>>

\* Another run of the tool rewrites characters.json between two calls.
FileReplaced ==
    /\ esiPc = "idle"
    /\ \E file \in CharFiles \ {characterFile} : characterFile' = file
    /\ UNCHANGED <<memoryCache, esiPc, characterIds, fileCache, uncachedIds,
                   offset, names, batchLog, memAtCall, fileAtCall>>
    /\ UNCHANGED <<fetchVars, statsVars, runVars>>

\* The name lookup on its own: no fetch in progress.
InitNames ==
    /\ InitFetch
    /\ IdleRun
    /\ listing = <<>>
    /\ kind = "kills"
    /\ unreadable = {}
    /\ NewESI
    /\ characterFile \in CharFiles
    /\ IdleStats

NextNames ==
    \/ \E ids \in Calls : Call(ids)
    \/ BatchOk
    \/ BatchFail
    \/ Return
    \/ NewProcess
    \/ FileReplaced

SpecNames == InitNames /\ [][NextNames]_vars

\* ------------------------------------------------- aggregation on its own
\* The records handed to processKillmails.  Attackers of one record are
\* distinct characters, as ESI lists them; character 1 and 2 are members of
\* the tracked corporation, character 3 is not, an attacker without
\* character identity is an NPC of the tracked corporation's side.
Ship(id, name) == [shipTypeID |-> id, shipTypeName |-> name]

NoShip == Ship(0, "")
Capsule == Ship(CAPSULE_SHIP_ID, CAPSULE_SHIP_NAME)
Rifter == Ship(587, "Rifter")
\* a ship type whose record carries no name
Unnamed == Ship(603, "")

Attacker(corporationID, characterID, characterName, ship, finalBlow) ==
    [characterID |-> characterID,
     characterName |-> characterName,
     corporationID |-> corporationID,
     shipTypeID |-> ship.shipTypeID,
     shipTypeName |-> ship.shipTypeName,
     finalBlow |-> finalBlow]

Attackers ==
    {Attacker(corporationId, 1, "", ship, fb) :
        ship \in {Capsule, Rifter}, fb \in BOOLEAN}
    \cup {Attacker(corporationId, 1, "", NoShip, TRUE),
          Attacker(corporationId, 1, "", Unnamed, FALSE),
          Attacker(corporationId, 1, "Bob", Rifter, FALSE),
          Attacker(corporationId, 2, "", Rifter, FALSE),
          Attacker(corporationId + 1, 3, "", Rifter, TRUE),
          Attacker(corporationId, 0, "", Rifter, TRUE)}

AttackerLists ==
    {as \in UNION {[1..n -> Attackers] : n \in 0..MaxAttackers} :
        \A i, j \in 1..Len(as) : as[i].characterID = as[j].characterID => i = j}

Victim(corporationID, characterID, characterName, ship, damageTaken) ==
    [characterID |-> characterID,
     characterName |-> characterName,
     corporationID |-> corporationID,
     shipTypeID |-> ship.shipTypeID,
     shipTypeName |-> ship.shipTypeName,
     damageTaken |-> damageTaken]

\* The records of a kill report: the victim is of another corporation.
Killmails ==
    {[victim |-> Victim(corporationId + 1, 3, "", ship, 5),
      attackers |-> as,
      zkb |-> [totalValue |-> 5]] :
        ship \in {Capsule, Rifter}, as \in AttackerLists}

\* The records of a loss report, as getAllLosses may return them: the victim
\* may be a structure (no character identity), the value may be missing (0),
\* and the aggregator itself tests the victim's corporation.
LossKillmails ==
    {[victim |-> Victim(c, characterID, characterName, ship, damageTaken),
      attackers |-> <<>>,
      zkb |-> [totalValue |-> value]] :
        c \in {corporationId, corporationId + 1},
        characterID \in 0..1,
        characterName \in {"", "Bob"},
        ship \in {Capsule, Rifter, Unnamed},
        damageTaken \in {0, 5},
        value \in {0, 7}}
    \cup
    {[victim |-> Victim(corporationId, 2, "", Rifter, damageTaken),
      attackers |-> <<>>,
      zkb |-> [totalValue |-> value]] :
        damageTaken \in {0, 5},
        value \in {0, 7}}

\* What esi.getCharacterNames resolved (runStats lines 151-152), or nothing
\* without --names.
NameMaps == {EmptyMap, [x \in {1} |-> "Alice"]}

\* The keys of this.stats.participants after a record: a Map keeps its keys
\* in insertion order, and participants.set (lines 91, 304) inserts the
\* characters of ids, in that order, that the record gave an aggregate.
RECURSIVE insertionOrder(_, _, _)
insertionOrder(order, ids, after) ==
    IF ids = <<>> THEN order
    ELSE insertionOrder(
            IF /\ Head(ids) \in DOMAIN after.participants
               /\ \A i \in 1..Len(order) : order[i] # Head(ids)
            THEN Append(order, Head(ids)) ELSE order,
            Tail(ids), after)

\* The comparator's key of getParticipantRanking (lines 166-173, 376-385).
rankKey(participant, sortBy) ==
    IF isLosses
    THEN CASE sortBy = "value" -> participant.totalValue
           [] sortBy = "damage" -> participant.damageTaken
           [] OTHER -> participant.totalLosses
    ELSE IF sortBy = "finalblows" THEN participant.finalBlows
         ELSE participant.totalKills

\* Mutant: among equal keys the one seen later comes first.
sortInsertTiesFirst(sorted, participant, sortBy) ==
    LET n == Cardinality({i \in 1..Len(sorted) :
                             rankKey(sorted[i], sortBy) > rankKey(participant, sortBy)})
    IN SubSeq(sorted, 1, n) \o <<participant>> \o SubSeq(sorted, n + 1, Len(sorted))

\* Array.prototype.sort with the comparator b.key - a.key is a stable sort
\* (ECMAScript 2019): an element goes behind every element whose key is not
\* smaller.
sortInsert(sorted, participant, sortBy) ==
    LET n == Cardinality({i \in 1..Len(sorted) :
                             rankKey(sorted[i], sortBy) >= rankKey(participant, sortBy)})
    IN SubSeq(sorted, 1, n) \o <<participant>> \o SubSeq(sorted, n + 1, Len(sorted))

RECURSIVE sortParticipants(_, _, _)
sortParticipants(sorted, participants, sortBy) ==
    IF participants = <<>> THEN sorted
    ELSE sortParticipants(sortInsert(sorted, Head(participants), sortBy),
                          Tail(participants), sortBy)

\* getParticipantRanking (lines 160-176, 370-388).
getParticipantRanking(sortBy, limit) ==
    LET participants == [i \in 1..Len(participantOrder) |->
                            stats.participants[participantOrder[i]]]
        sorted == sortParticipants(<<>>, participants, sortBy)
    IN SubSeq(sorted, 1, Min(limit, Len(sorted)))

\* Mutant: a record equal to the one just folded in is skipped.
ProcessKillOnce(killmail) ==
    /\ ~isLosses
    /\ ranking = Null
    /\ processed < MaxRecords
    /\ curKillmail' = killmail
    /\ statsBefore' = stats
    /\ stats' = IF killmail = curKillmail THEN stats
                ELSE KillmailStatsProcessKillmail(stats, killmail)
    /\ participantOrder' =
          insertionOrder(participantOrder,
                         [i \in 1..Len(killmail.attackers) |-> killmail.attackers[i].characterID],
                         stats')
    /\ processed' = processed + 1
    /\ excluded' = excluded + (IF killmail.victim.shipTypeID = CAPSULE_SHIP_ID THEN 1 ELSE 0)
    /\ UNCHANGED <<isLosses, characterNames, ranking>>
    /\ UNCHANGED <<fetchVars, esiVars, runVars>>

\* One iteration of KillmailStats.processKillmails (lines 151-153).
ProcessKill(killmail) ==
    /\ ~isLosses
    /\ ranking = Null
    /\ processed < MaxRecords
    /\ curKillmail' = killmail
    /\ statsBefore' = stats
    /\ stats' = KillmailStatsProcessKillmail(stats, killmail)
    /\ participantOrder' =
          insertionOrder(participantOrder,
                         [i \in 1..Len(killmail.attackers) |-> killmail.attackers[i].characterID],
                         stats')
    /\ processed' = processed + 1
    /\ excluded' = excluded + (IF killmail.victim.shipTypeID = CAPSULE_SHIP_ID THEN 1 ELSE 0)
    /\ UNCHANGED <<isLosses, characterNames, ranking>>
    /\ UNCHANGED <<fetchVars, esiVars, runVars>>

\* One iteration of LossStatistics.processKillmails (lines 361-363).
ProcessLoss(killmail) ==
    /\ isLosses
    /\ ranking = Null
    /\ processed < MaxRecords
    /\ curKillmail' = killmail
    /\ statsBefore' = stats
    /\ stats' = LossStatisticsProcessKillmail(stats, killmail)
    /\ participantOrder' =
          insertionOrder(participantOrder, <<killmail.victim.characterID>>, stats')
    /\ processed' = processed + 1
    /\ excluded' = excluded + (IF killmail.victim.shipTypeID = CAPSULE_SHIP_ID THEN 1 ELSE 0)
    /\ UNCHANGED <<isLosses, characterNames, ranking>>
    /\ UNCHANGED <<fetchVars, esiVars, runVars>>

\* The options outputMarkdown / outputLossesMarkdown (runStats lines 167-170,
\* 211-214) may pass: the sort keys of the aggregator's kind, a limit that
\* truncates and the default limit.
SortKeys == IF isLosses THEN {"losses", "value", "damage"} ELSE {"kills", "finalblows"}

Limits == {1, 50}

\* The report asks for the ranking, once processKillmails has returned.
Rank(sortBy, limit) ==
    /\ ranking = Null
    /\ processed > 0
    /\ ranking' = [sortBy |-> sortBy, limit |-> limit,
                   result |-> getParticipantRanking(sortBy, limit)]
    /\ UNCHANGED <<isLosses, stats, characterNames, curKillmail, statsBefore,
                   processed, excluded, participantOrder>>
    /\ UNCHANGED <<fetchVars, esiVars, runVars>>

\* The aggregator on its own: the records are fetched, the names resolved.
InitStats ==
    /\ InitFetch
    /\ IdleRun
    /\ listing = <<>>
    /\ unreadable = {}
    /\ NewESI
    /\ characterFile = EmptyMap
    /\ isLosses = (kind = "losses")
    /\ stats = NewStats(isLosses)
    /\ characterNames \in NameMaps
    /\ curKillmail = Null
    /\ statsBefore = stats
    /\ processed = 0
    /\ excluded = 0
    /\ participantOrder = <<>>
    /\ ranking = Null

NextStats ==
    \/ \E killmail \in Killmails : ProcessKill(killmail)
    \/ \E killmail \in LossKillmails : ProcessLoss(killmail)
    \/ \E sortBy \in SortKeys, limit \in Limits : Rank(sortBy, limit)

SpecStats == InitStats /\ [][NextStats]_vars

\* ------------------------------------- from the detail response to the sums
\* The ship-name table of ./ship-names (api.ts line 11) for the one type the
\* aggregator knows by name.
SHIP_NAMES == [x \in {CAPSULE_SHIP_ID} |-> CAPSULE_SHIP_NAME]

\* getShipTypeName (lines 309-312); "" stands for undefined.
getShipTypeName(typeID) ==
    IF typeID = 0 THEN ""
    ELSE IF typeID \in DOMAIN SHIP_NAMES THEN SHIP_NAMES[typeID]
    ELSE "ShipType_" \o ToString(typeID)

\* Mutant: the flag is taken from the source as it is.
transformAttackersSourceFlag(attackers) ==
    [index \in 1..Len(attackers) |->
        [characterID |-> attackers[index].character_id,
         characterName |-> "",
         corporationID |-> attackers[index].corporation_id,
         shipTypeID |-> attackers[index].ship_type_id,
         shipTypeName |-> getShipTypeName(attackers[index].ship_type_id),
         finalBlow |-> attackers[index].final_blow = "true"]]

\* transformESIResponse, the attackers (lines 281-292): final_blow ||
\* index === 0; the array index 0 is position 1 of the sequence.
transformAttackers(attackers) ==
    [index \in 1..Len(attackers) |->
        [characterID |-> attackers[index].character_id,
         characterName |-> "",
         corporationID |-> attackers[index].corporation_id,
         shipTypeID |-> attackers[index].ship_type_id,
         shipTypeName |-> getShipTypeName(attackers[index].ship_type_id),
         finalBlow |-> attackers[index].final_blow = "true" \/ index = 1]]

\* transformESIResponse (lines 267-304), with the fields the aggregator reads.
transformESIData(body) ==
    [victim |-> [characterID |-> body.victim.character_id,
                 characterName |-> "",
                 corporationID |-> body.victim.corporation_id,
                 shipTypeID |-> body.victim.ship_type_id,
                 shipTypeName |-> getShipTypeName(body.victim.ship_type_id),
                 damageTaken |-> body.victim.damage_taken],
     attackers |-> transformAttackers(body.attackers),
     zkb |-> [totalValue |-> body.victim.damage_taken]]

\* final_blow of the attackers of one detail response: the source gives it
\* for every attacker, or for none.
FinalBlowFlags(n) ==
    [1..n -> {"true", "false"}] \cup {[i \in 1..n |-> "omitted"]}

\* The attackers of a detail response, n of them: the attacker at position i
\* is character i; the first may be in an escape pod, the second may belong
\* to another corporation.
SourceAttackers(n) ==
    {[i \in 1..n |->
        [character_id |-> i,
         corporation_id |-> IF i = 2 THEN c ELSE corporationId,
         ship_type_id |-> IF i = 1 THEN s ELSE 587,
         final_blow |-> f[i]]] :
        c \in {corporationId, corporationId + 1},
        s \in {587, CAPSULE_SHIP_ID},
        f \in FinalBlowFlags(n)}

\* The detail responses: a frigate of another corporation was destroyed.
DetailBodies ==
    {[victim |-> [character_id |-> 9, corporation_id |-> corporationId + 1,
                  ship_type_id |-> 587, damage_taken |-> 5],
      attackers |-> as] :
        as \in UNION {SourceAttackers(n) : n \in 0..MaxAttackers}}

\* getESIKillmailDetail returns the transformed detail response (line 254).
DetailTransformed(body) ==
    /\ transformed = Null
    /\ processed < MaxRecords
    /\ esiData' = body
    /\ transformed' = transformESIData(body)
    /\ UNCHANGED <<corp, startPc, apiCorporationID>>
    /\ UNCHANGED <<fetchVars, esiVars, statsVars>>

\* processKillmails reaches the record (stats.ts lines 151-153).
RecordAggregated ==
    /\ transformed # Null
    /\ curKillmail' = transformed
    /\ statsBefore' = stats
    /\ stats' = KillmailStatsProcessKillmail(stats, transformed)
    /\ participantOrder' =
          insertionOrder(participantOrder,
                         [i \in 1..Len(transformed.attackers) |->
                             transformed.attackers[i].characterID],
                         stats')
    /\ processed' = processed + 1
    /\ transformed' = Null
    /\ UNCHANGED <<isLosses, characterNames, excluded, ranking>>
    /\ UNCHANGED <<corp, startPc, apiCorporationID, esiData>>
    /\ UNCHANGED <<fetchVars, esiVars>>

InitDetail ==
    /\ InitFetch
    /\ IdleRun
    /\ listing = <<>>
    /\ kind = "kills"
    /\ unreadable = {}
    /\ NewESI
    /\ characterFile = EmptyMap
    /\ IdleStats

NextDetail ==
    \/ \E body \in DetailBodies : DetailTransformed(body)
    \/ RecordAggregated

SpecDetail == InitDetail /\ [][NextDetail]_vars

\* ----------------------------------------------------- the start of runStats
\* The characters of options.corp: digits, a letter, a sign, a decimal point.
OptChars == {"0", "1", "a", "-", "."}

Digits == {"0", "1"}

DigitValue(c) == IF c = "1" THEN 1 ELSE 0

RECURSIVE StringsUpTo(_)
StringsUpTo(n) ==
    IF n = 0 THEN {<<>>}
    ELSE StringsUpTo(n - 1) \cup
         {Append(str, c) : str \in {t \in StringsUpTo(n - 1) : Len(t) = n - 1}, c \in OptChars}

CorpOptions == StringsUpTo(MaxOptLen)

\* The longest prefix of str made of digits.
RECURSIVE digitPrefix(_)
digitPrefix(str) ==
    IF str = <<>> \/ Head(str) \notin Digits THEN <<>>
    ELSE <<Head(str)>> \o digitPrefix(Tail(str))

\* The number a string of digits denotes in base 10.
RECURSIVE numberOf(_, _)
numberOf(digits, acc) ==
    IF digits = <<>> THEN acc
    ELSE numberOf(Tail(digits), 10 * acc + DigitValue(Head(digits)))

\* parseInt(str, 10) (ECMAScript): an optional sign, then the longest prefix
\* of digits; NaN when there is no digit, and whatever follows the digits is
\* ignored.  OptChars has no white space and no "+".
parseInt(str) ==
    LET negative == str # <<>> /\ Head(str) = "-"
        body == IF negative THEN Tail(str) ELSE str
        digits == digitPrefix(body)
    IN IF digits = <<>> THEN [isNaN |-> TRUE, value |-> 0]
       ELSE [isNaN |-> FALSE,
             value |-> (IF negative THEN 0 - 1 ELSE 1) * numberOf(digits, 0)]

\* runStats lines 57-60: the ID is refused, process.exit(1).
RunStatsExit ==
    /\ startPc = "start"
    /\ parseInt(corp).isNaN \/ parseInt(corp).value <= 0
    /\ startPc' = "exit1"
    /\ UNCHANGED <<corp, apiCorporationID, esiData, transformed>>
    /\ UNCHANGED <<fetchVars, esiVars, statsVars>>

\* runStats lines 55-86: the ID is accepted, the API object is constructed.
RunStatsAccept ==
    /\ startPc = "start"
    /\ ~(parseInt(corp).isNaN \/ parseInt(corp).value <= 0)
    /\ startPc' = "fetch"
    /\ apiCorporationID' = parseInt(corp).value
    /\ UNCHANGED <<corp, esiData, transformed>>
    /\ UNCHANGED <<fetchVars, esiVars, statsVars>>

\* runStats lines 96-120: getAllKills / getAllLosses sends its first request.
FirstRequest ==
    /\ startPc = "fetch"
    /\ pc = "idle"
    /\ StartRun

InitStartup ==
    /\ InitFetch
    /\ listing = <<>>
    /\ unreadable = {}
    /\ NewESI
    /\ characterFile = EmptyMap
    /\ IdleStats
    /\ corp \in CorpOptions
    /\ startPc = "start"
    /\ apiCorporationID = Null
    /\ esiData = Null
    /\ transformed = Null

NextStartup ==
    \/ RunStatsExit
    \/ RunStatsAccept
    \/ FirstRequest

SpecStartup == InitStartup /\ [][NextStartup]_vars

\* ------------------------------------------------ one run over many pages
\* Listings of up to MaxListed pages; what a page lists does not matter to
\* paging, every page lists record 1.
LongListings ==
    {[k \in 1..n |-> <<[killmail_id |-> 1, hash |-> HashOf(1)]>>] : n \in 0..MaxListed}

InitPages ==
    /\ IdleFetch
    /\ listing \in LongListings
    /\ kind = "kills"
    /\ unreadable = {}
    /\ IdleRun
    /\ NewESI
    /\ characterFile = EmptyMap
    /\ IdleStats

\* The list request in flight is answered, or fails.
ListResponse ==
    \/ ListOk
    \/ ListNotArray
    \/ \E o \in Errors : ListRetry(o)
    \/ \E o \in Errors : ListFail(o)

\* The detail request in flight is answered, or fails.
DetailResponse ==
    \/ DetailOk
    \/ DetailFail

\* One invocation that is not killed.
NextPages ==
    \/ FirstRequest
    \/ ListResponse
    \/ DetailResponse
    \/ SavePage
    \/ NextPage
    \/ Deliver

\* Every request gets a response or an error (the clients have timeouts,
\* api.ts lines 62-80), timers fire, and the event loop runs the
\* continuations.
SpecPages ==
    /\ InitPages
    /\ [][NextPages]_vars
    /\ WF_vars(ListResponse)
    /\ WF_vars(DetailResponse)
    /\ WF_vars(SavePage)
    /\ WF_vars(NextPage)
    /\ WF_vars(Deliver)

\* ------------------------------------------------------- derived history
Last(q) == q[Len(q)]

\* The detail requests issued so far in this invocation, the one in flight
\* included.
DetailReqs ==
    [i \in 1..Len(fetchLog) |-> [id |-> fetchLog[i].id, hash |-> fetchLog[i].hash]]
      \o (IF pc = "drain"
          THEN <<[id |-> Head(needFetch).killmail_id, hash |-> Head(needFetch).hash]>>
          ELSE <<>>)

\* Every list request of this invocation so far was answered with an array.
AllArrays == \A i \in 1..Len(listResps) : listResps[i].status = "array"

\* getAllKills has returned (the invocation may have gone on to the report).
Finished == pc \in {"done", "exited"}

\* ------------------------------------------------------------------- C1
\* C1: the list requests of a run are for pages 1, 2, ... in that order; a
\* further page is requested exactly after a non-empty page (whatever its
\* size and whatever the fate of its detail fetches); getAllKills returns
\* only after a response with zero summaries, and against a listing whose
\* first empty page is k it has then issued exactly k list requests.
C1_Pagination ==
    /\ listReqs = [i \in 1..Len(listReqs) |-> i]
    /\ \A i \in 1..Len(listResps) :
          /\ listResps[i].page = i
          /\ i < Len(listReqs) => listResps[i].status = "array" /\ listResps[i].raw > 0
    /\ pc = "pageDelay" => Len(listReqs) = Len(listResps) /\ page = Len(listReqs) + 1
    /\ pc \in {"list", "drain", "save"} => page = Len(listReqs)
    /\ Finished =>
          /\ Len(listResps) = Len(listReqs)
          /\ Last(listResps).raw = 0
          /\ Last(listResps).status # "error"
          /\ AllArrays => Len(listReqs) = Len(listing) + 1
    /\ (Len(listResps) = Len(listReqs) /\ Len(listResps) > 0
          /\ Last(listResps).status = "array" /\ Last(listResps).raw > 0)
        => pc \in {"drain", "save", "pageDelay", "crashed"}

\* A run that read two non-empty pages, the first one short, and none of
\* whose detail fetches succeeded, and stopped at the empty page 3.
C1_Witness ==
    /\ pc = "done"
    /\ listReqs = <<1, 2, 3>>
    /\ AllArrays
    /\ Len(listing[1]) < MaxItems
    /\ allKills = <<>>
    /\ Len(fetchLog) = Items(listing)

\* ------------------------------------------------------------------- C2
\* The invocation before this one read the whole listing of the same
\* partition and returned, and this one did too.
SecondCleanRun ==
    /\ pc = "exited"
    /\ AllArrays
    /\ Len(prev) > 0
    /\ Last(prev).clean
    /\ Last(prev).kind = kind

\* C2 as stated: the second of two runs over the same partition issues no
\* detail request and returns the record sequence of the first.
C2_AsStated ==
    SecondCleanRun => fetchLog = <<>> /\ returned[1] = Last(prev).result

\* C2, amended: when every detail request of the first run succeeded, the
\* second run over the same partition issues no detail request and returns
\* the record sequence of the first.
C2_CacheIdempotence ==
    (SecondCleanRun /\ Last(prev).failed = {})
        => fetchLog = <<>> /\ returned[1] = Last(prev).result

\* A second run over a partition the first run filled from two pages.
C2_Witness ==
    /\ SecondCleanRun
    /\ Last(prev).failed = {}
    /\ Len(listing) = 2
    /\ Len(returned[1]) = MaxItems
    /\ fetchLog = <<>>

\* ------------------------------------------------------------------- C3
\* The IDs a page of summaries lists, and how often it lists one.
ListedIds(d) == {d[i].killmail_id : i \in 1..Len(d)}
Listed(d, id) == Cardinality({i \in 1..Len(d) : d[i].killmail_id = id})
Holds(q, id) == Cardinality({i \in 1..Len(q) : q[i].killID = id})

\* The IDs of the page being processed that were in the partition file when
\* the page was read (the file is next written when the page is done).
Hits == ListedIds(data) \cap DOMAIN disk[kind]

\* The records a step appends to allKills.
Appended == SubSeq(allKills', Len(allKills) + 1, Len(allKills'))

\* C3: for a summary whose ID is in the partition when its page is
\* processed, whatever hash the summary carries, no detail request is issued
\* and the result gets exactly the cached record, once per listing.
C3_HitNoRequest ==
    pc \in {"drain", "save"} =>
        \A id \in Hits :
            /\ \A i \in 1..Len(needFetch) : needFetch[i].killmail_id # id
            /\ \A i \in 1..Len(fetchLog) :
                   fetchLog[i].page = page => fetchLog[i].id # id
            /\ cachedKillmails[id] = disk[kind][id]

C3_HitResult ==
    (pc = "save" /\ pc' = "pageDelay") =>
        \A id \in Hits :
            /\ Holds(Appended, id) = Listed(data, id)
            /\ \A i \in 1..Len(Appended) :
                   Appended[i].killID = id => Appended[i] = disk[kind][id]

C3_CacheHit == []C3_HitNoRequest /\ [][C3_HitResult]_vars

\* A page was served from the partition for a summary that carries another
\* hash than the cached record.
C3_Witness ==
    /\ pc = "pageDelay"
    /\ fetchLog = <<>>
    /\ \E i \in 1..Len(data) :
          /\ data[i].hash = WrongHash
          /\ data[i].killmail_id \in DOMAIN disk[kind]
          /\ disk[kind][data[i].killmail_id].hash # WrongHash
          /\ \E j \in 1..Len(allKills) : allKills[j] = disk[kind][data[i].killmail_id]

\* ------------------------------------------------------------------- C4
\* C4: an entry of a partition, in the file or in the working copy of the
\* page being processed, is never removed and never changes its record,
\* also when a page lists the ID again.
C4_DiskStep ==
    \A k \in Kinds : \A id \in DOMAIN disk[k] :
        id \in DOMAIN disk'[k] /\ disk'[k][id] = disk[k][id]

C4_CopyStep ==
    /\ (pc \in {"drain", "save"} /\ pc' # "crashed") =>
          \A id \in DOMAIN cachedKillmails :
              id \in DOMAIN cachedKillmails' /\ cachedKillmails'[id] = cachedKillmails[id]
    /\ (pc = "save" /\ pc' # "crashed") =>
          \A id \in DOMAIN cachedKillmails :
              id \in DOMAIN disk'[kind] /\ disk'[kind][id] = cachedKillmails[id]

C4_AppendOnly == [][C4_DiskStep /\ C4_CopyStep]_vars

\* A page listed an ID twice, both detail requests succeeded, and the
\* partition holds the record.
C4_Witness ==
    /\ pc = "pageDelay"
    /\ DOMAIN disk[kind] # {}
    /\ \E i, j \in 1..Len(fetchLog) :
          /\ i < j
          /\ fetchLog[i].page = fetchLog[j].page
          /\ fetchLog[i].id = fetchLog[j].id
          /\ fetchLog[i].ok /\ fetchLog[j].ok

\* ------------------------------------------------------------------- C5
\* C5: every record whose detail fetch succeeded on a page before the one
\* being handled is in the partition file, so whatever ends the run while
\* page n is handled, the records of pages 1..n-1 are kept.
C5_PageDurability ==
    \A i \in 1..Len(fetchLog) :
        (fetchLog[i].ok /\ fetchLog[i].page < page) =>
            /\ fetchLog[i].id \in DOMAIN disk[kind]
            /\ disk[kind][fetchLog[i].id] =
                 transformESIResponse(fetchLog[i].id, fetchLog[i].hash)

\* A run killed while draining page 2: the record of page 1 is in the file,
\* the record fetched on page 2 is lost.
C5_Witness ==
    /\ pc = "crashed"
    /\ page = 2
    /\ \E i, j \in 1..Len(fetchLog) :
          /\ fetchLog[i].ok /\ fetchLog[i].page = 1
          /\ fetchLog[i].id \in DOMAIN disk[kind]
          /\ fetchLog[j].ok /\ fetchLog[j].page = 2
          /\ fetchLog[j].id \notin DOMAIN disk[kind]

\* ------------------------------------------------------------------- C6
\* The detail requests answered on the page being processed.
OnPage == {i \in 1..Len(fetchLog) : fetchLog[i].page = page}
FailedIds == {fetchLog[i].id : i \in {j \in 1..Len(fetchLog) : ~fetchLog[j].ok}}
FetchedIds == {fetchLog[i].id : i \in {j \in 1..Len(fetchLog) : fetchLog[j].ok}}

\* C6: a failed detail fetch does not end the run and adds nothing to the
\* partition; every miss of the page is requested whatever the fate of the
\* others; an ID no request fetched stays out of the partition, and the
\* next run over the partition requests it again when a page lists it.
C6_FailStep ==
    (Len(fetchLog') = Len(fetchLog) + 1 /\ ~Last(fetchLog').ok) =>
        /\ pc' \in {"drain", "save"}
        /\ cachedKillmails' = cachedKillmails
        /\ disk' = disk
        /\ needFetch' = Tail(needFetch)
        /\ allKills' = allKills

C6_State ==
    /\ pc = "aborted" =>
          Len(listResps) = Len(listReqs) /\ Last(listResps).status = "error"
    /\ pc = "save" =>
          Cardinality(OnPage) =
            Cardinality({i \in 1..Len(data) : data[i].killmail_id \notin DOMAIN disk[kind]})
    /\ \A id \in FailedIds \ FetchedIds :
          /\ id \notin DOMAIN disk[kind]
          /\ pc \in {"drain", "save"} => id \notin DOMAIN cachedKillmails
    /\ (pc = "save" /\ Len(prev) > 0 /\ Last(prev).kind = kind) =>
          \A id \in (Last(prev).failed \cap ListedIds(data)) \ DOMAIN disk[kind] :
              \E i \in OnPage : fetchLog[i].id = id

C7_AsStated ==
    \A i \in 1..Len(fetchLog) :
        ~fetchLog[i].ok =>
            /\ \A j \in 1..Len(allKills) : allKills[j].killID # fetchLog[i].id
            /\ \A j \in 1..Len(DetailReqs) : j # i => DetailReqs[j].id # fetchLog[i].id

\* ------------------------------------------------------------------- C8
KillIDs(q) == [i \in 1..Len(q) |-> q[i].killID]
SummaryIds(d) == [i \in 1..Len(d) |-> d[i].killmail_id]

RECURSIVE IsSubseq(_, _)
IsSubseq(a, b) ==
    IF a = <<>> THEN TRUE
    ELSE IF b = <<>> THEN FALSE
    ELSE IF Head(a) = Head(b) THEN IsSubseq(Tail(a), Tail(b))
    ELSE IsSubseq(a, Tail(b))

\* The summaries of the pages getAllKills has taken in, in observed order.
Observed == Concat(SubSeq(listing, 1, page - 1))

\* C8: the result lists the records in the order in which the list endpoint
\* showed them, page by page and position by position.
C8_ResultOrder ==
    /\ IsSubseq(KillIDs(allKills), SummaryIds(Observed))
    /\ pc = "exited" => returned = <<allKills>>

\* A page gave a freshly fetched record of a higher ID followed by a cache
\* hit of a lower ID, and the result keeps them in that order.
C8_Witness ==
    /\ pc = "done"
    /\ Len(fetchLog) > 0
    /\ \E i \in 1..Len(allKills) - 1 :
          /\ allKills[i].killID > allKills[i + 1].killID
          /\ allKills[i].killID = Last(fetchLog).id
          /\ Last(fetchLog).page = page - 1
          /\ \A j \in 1..Len(fetchLog) :
                fetchLog[j].id = allKills[i + 1].killID => fetchLog[j].page < page - 1

\* ------------------------------------------------------------------- C9
\* Attempts made so far for the list request in flight.
Attempts == retryCount + 1

\* C9 as stated: a list request is attempted at most 3 times in total.
C9_AsStated == pc \in {"list", "aborted"} => Attempts <= 3

\* C9, amended: a list request is attempted at most 4 times in total, the
\* first attempt and at most 3 retries; the n-th retry follows a wait of
\* n * 1000 ms and is made only after a network error, a 429 or a 5xx.
C9_State ==
    /\ retryCount <= 3
    /\ Len(waits) = retryCount
    /\ \A n \in 1..Len(waits) : waits[n] = n * 1000

C9_RetryStep ==
    retryCount' > retryCount =>
        /\ retryCount' = retryCount + 1
        /\ lastError' \in {"network", "429", "503"}
        /\ pc = "list" /\ pc' = "list"
        /\ listReqs' = listReqs

C9_FailStep ==
    (pc = "list" /\ pc' = "aborted") =>
        \/ lastError' \in {"404"} /\ retryCount' = retryCount
        \/ lastError' \in {"network", "429", "503"} /\ retryCount = 3

C9_RetrySchedule == []C9_State /\ [][C9_RetryStep /\ C9_FailStep]_vars

\* The fourth attempt of the request for page 2 is in flight after waits of
\* 1000, 2000 and 3000 ms.
C9_Witness ==
    /\ pc = "list"
    /\ page = 2
    /\ Attempts = 4
    /\ waits = <<1000, 2000, 3000>>

\* ------------------------------------------------------------------ C10
\* C10: once a list request has failed for good, the invocation is over
\* with an error: getAllKills returns nothing, the records accumulated from
\* the earlier pages reach neither the aggregator nor a report, and no
\* request follows.
C10_State ==
    (Len(listResps) > 0 /\ Last(listResps).status = "error") =>
        /\ pc = "aborted"
        /\ returned = <<>>
        /\ ~report
        /\ Len(listReqs) = Len(listResps)

C10_AbortedStep ==
    pc = "aborted" =>
        /\ pc' = "list" /\ listReqs' = <<1>> /\ fetchLog' = <<>>
        /\ returned' = <<>> /\ ~report'
        /\ disk' = disk

C10_ListFailureAborts == []C10_State /\ [][C10_AbortedStep]_vars

\* The request for page 2 failed for good with the records of page 1 in
\* memory.
C10_Witness ==
    /\ pc = "aborted"
    /\ page = 2
    /\ allKills # <<>>
    /\ returned = <<>>
    /\ lastError = "429"
\* ------------------------------------------------------------------ C11
\* C11 as stated: a run whose list request did not yield a readable page
\* (the request failed, or the body is not an array of summaries) never ends
\* in Done: getAllKills returns only when every page was read.
C11_AsStated == Finished => AllArrays

\* ------------------------------------------------------------------ C12
\* The detail requests of the page that was just processed.
PageFetches(n) == {i \in 1..Len(fetchLog) : fetchLog[i].page = n}

\* C12: every list request after the first of a run is sent by the step that
\* sleeps PAGE_DELAY_MS = 2000 ms, and that step is taken only when the page
\* before is drained (no miss left to request) and its working copy is in the
\* partition file; there is one such delay per further list request, whether
\* the page before had misses or not.
C12_State ==
    /\ \A i \in 1..Len(pageDelays) : pageDelays[i] = 2000
    /\ listReqs # <<>> => Len(pageDelays) = Len(listReqs) - 1
    /\ pc = "pageDelay" =>
          /\ needFetch = <<>>
          /\ disk[kind] = cachedKillmails
          /\ \A i \in PageFetches(page - 1) : fetchLog[i].ok =>
                 fetchLog[i].id \in DOMAIN disk[kind]

C12_Step ==
    (Len(listReqs') > Len(listReqs) /\ Len(listReqs) > 0) =>
        /\ pc = "pageDelay"
        /\ pageDelays' = Append(pageDelays, 2000)
        /\ listReqs' = Append(listReqs, Last(listReqs) + 1)

C12_InterPageDelay == []C12_State /\ [][C12_Step]_vars

\* Page 3 is requested after two delays; page 1 had only cache hits, page 2
\* had a miss.
C12_Witness ==
    /\ pc = "list"
    /\ listReqs = <<1, 2, 3>>
    /\ pageDelays = <<2000, 2000>>
    /\ PageFetches(1) = {}
    /\ PageFetches(2) # {}

\* ------------------------------------------------------------------ C13
\* Outbound requests in flight: a list request, a detail request, a name
\* batch.
InFlight ==
    (IF pc = "list" THEN 1 ELSE 0) + (IF pc = "drain" THEN 1 ELSE 0)
        + (IF esiPc = "batch" THEN 1 ELSE 0)

\* C13: at most one request is in flight; detail requests are answered one
\* at a time, and after each of them, so before the next one, a delay of 100
\* to 200 ms is slept.
C13_State ==
    /\ InFlight <= 1
    /\ pc = "drain" => needFetch # <<>>
    /\ (Running /\ fetchLog # <<>>) => jitter >= 100 /\ jitter <= 200

C13_Step ==
    fetchLog' # fetchLog /\ fetchLog' # <<>> =>
        /\ Len(fetchLog') = Len(fetchLog) + 1
        /\ pc = "drain"
        /\ jitter' >= 100 /\ jitter' <= 200

C14_AsStated ==
    \A i, j \in 1..Len(allKills) : allKills[i].killID = allKills[j].killID => i = j
\* ------------------------------------------------------------------ C15
\* The IDs of the page being processed whose detail request succeeded.
FetchedOk == {fetchLog[i].id : i \in {j \in PageFetches(page) : fetchLog[j].ok}}

\* C15: the Fetch Client treats the record of an escape pod like any other:
\* a record that was fetched is stored with its ship type, every record of
\* the page that is a cache hit or was fetched is written to the partition
\* file and appended to the result once per listing; only the aggregator
\* leaves the pods out of its total.
C15_State ==
    /\ \A id \in DOMAIN cachedKillmails :
          cachedKillmails[id].shipTypeID = ShipTypeOf(id)
    /\ \A id \in DOMAIN disk[kind] : disk[kind][id].shipTypeID = ShipTypeOf(id)
    /\ pc = "exited" =>
          /\ totalKills = Cardinality({i \in 1..Len(returned[1]) :
                                         returned[1][i].shipTypeID # CAPSULE_SHIP_ID})
          /\ returned[1] = allKills

C15_Step ==
    (pc = "save" /\ pc' = "pageDelay") =>
        \A id \in ListedIds(data) \cap (FetchedOk \cup DOMAIN ReadCache(kind)) :
            /\ id \in DOMAIN disk'[kind]
            /\ Holds(allKills', id) = Holds(allKills, id) + Listed(data, id)

C15_NoFilterInFetchClient == []C15_State /\ [][C15_Step]_vars

\* A run fetched the record of an escape pod and the record of a frigate,
\* stored and returned both, and the aggregator counted one.
C15_Witness ==
    /\ pc = "exited"
    /\ \E i \in 1..Len(fetchLog) : fetchLog[i].ok /\ ShipTypeOf(fetchLog[i].id) = CAPSULE_SHIP_ID
    /\ 1 \in DOMAIN disk[kind]
    /\ disk[kind][1].shipTypeID = CAPSULE_SHIP_ID
    /\ Len(returned[1]) = 2
    /\ Holds(returned[1], 1) = 1
    /\ totalKills = 1

\* ------------------------------------------------------------------ C16
\* The partition file of this run cannot be read: it is absent (no run has
\* written it) or it does not parse.
NoCache == kind \in unreadable \/ (prev = <<>> /\ disk[kind] = EmptyMap)

\* C16: a list response read while the partition cannot be read does not end
\* the run: the working copy starts empty, every summary of the page is a
\* miss, and each of them is requested from the detail endpoint.
C16_Step ==
    (pc = "list" /\ NoCache /\ Len(listResps') > Len(listResps)
        /\ Last(listResps').status = "array") =>
        /\ pc' \in {"drain", "save"}
        /\ cachedKillmails' = EmptyMap
        /\ data' = PageOf(page)
        /\ needFetch' = data'

C16_State ==
    (kind \in unreadable /\ pc \in {"drain", "save"}) =>
        /\ Len(needFetch) + Cardinality(PageFetches(page)) = Len(data)
        /\ \A i \in 1..Len(needFetch) : needFetch[i] = data[Len(data) - Len(needFetch) + i]

C16_UnreadableCacheIsEmpty == []C16_State /\ [][C16_Step]_vars

\* The partition file does not parse and both summaries of page 1 were
\* requested from the detail endpoint.
C16_Witness ==
    /\ kind \in unreadable
    /\ pc = "save"
    /\ Len(data) = 2
    /\ Cardinality(PageFetches(1)) = 2
\* ------------------------------------------------------------------ C17
\* The IDs of the batch requests answered so far in this call, in order.
BatchIds == Concat([b \in 1..Len(batchLog) |-> batchLog[b].ids])

\* The requested IDs, and those of them a cache held when the call started.
Requested == {characterIds[j] : j \in 1..Len(characterIds)}
CachedAtCall == Requested \cap (DOMAIN memAtCall \cup DOMAIN fileAtCall)

\* C17: the n IDs found in neither cache are sent in ceil(n / 1000) batch
\* requests of at most 1000 IDs, each ID in exactly one of them: the batches
\* answered so far are consecutive slices of the uncached IDs.
C17_BatchCeiling ==
    (InCall /\ characterIds # <<>>) =>
        LET n == Len(uncachedIds)
        IN /\ {uncachedIds[j] : j \in 1..n} = Requested \ CachedAtCall
           /\ Cardinality(Requested \ CachedAtCall) = n
           /\ \A b \in 1..Len(batchLog) :
                 Len(batchLog[b].ids) >= 1 /\ Len(batchLog[b].ids) <= 1000
           /\ BatchIds = SubSeq(uncachedIds, 1, Len(BatchIds))
           /\ esiPc = "batch" => Len(BatchIds) < n /\ Len(BatchIds) = 1000 * Len(batchLog)
           /\ esiPc = "returned" =>
                 /\ BatchIds = uncachedIds
                 /\ Len(batchLog) = (n + 999) \div 1000

\* 2500 uncached IDs were resolved by batches of 1000, 1000 and 500.
C17_Witness ==
    /\ esiPc = "returned"
    /\ Len(uncachedIds) = 2500
    /\ Len(batchLog) = 3
    /\ Len(batchLog[1].ids) = 1000
    /\ Len(batchLog[2].ids) = 1000
    /\ Len(batchLog[3].ids) = 500

\* ------------------------------------------------------------------ C18
\* C18: an ID the in-process cache held when the call started gets that
\* name, whatever the persisted cache says; an ID only the persisted cache
\* held gets the persisted name, which is also copied to the in-process
\* cache; none of them is sent in a batch request.
C18_CacheOrder ==
    (InCall /\ characterIds # <<>>) =>
        /\ \A id \in Requested \cap DOMAIN memAtCall :
              /\ names[id] = memAtCall[id]
              /\ memoryCache[id] = memAtCall[id]
        /\ \A id \in (Requested \cap DOMAIN fileAtCall) \ DOMAIN memAtCall :
              /\ names[id] = fileAtCall[id]
              /\ memoryCache[id] = fileAtCall[id]
        /\ {uncachedIds[j] : j \in 1..Len(uncachedIds)} \cap CachedAtCall = {}
        /\ \A b \in 1..Len(batchLog) :
              {batchLog[b].ids[j] : j \in 1..Len(batchLog[b].ids)} \cap CachedAtCall = {}

\* A call found one ID in both caches, under different names, and one in
\* the persisted cache only; it sent no batch request.
C18_Witness ==
    /\ esiPc = "returned"
    /\ batchLog = <<>>
    /\ \E id \in Requested \cap DOMAIN memAtCall \cap DOMAIN fileAtCall :
          memAtCall[id] # fileAtCall[id] /\ names[id] = memAtCall[id]
    /\ \E id \in (Requested \cap DOMAIN fileAtCall) \ DOMAIN memAtCall :
          memoryCache[id] = fileAtCall[id]

\* ------------------------------------------------------------------ C19
\* The IDs of an answered batch that did not come back as a character.
NotCharacter(b) == {batchLog[b].ids[j] : j \in 1..Len(batchLog[b].ids)} \ batchLog[b].characters

\* C19: an ID a batch response returned as a character is in the result,
\* the in-process cache and the persisted cache; an ID it returned under
\* another category, or not at all, is in none of them.
C19_CharactersOnly ==
    InCall =>
        \A b \in 1..Len(batchLog) :
            /\ batchLog[b].others \subseteq NotCharacter(b)
            /\ \A id \in batchLog[b].characters :
                  /\ id \in DOMAIN names /\ id \in DOMAIN memoryCache
                  /\ id \in DOMAIN fileCache
                  /\ esiPc = "returned" => id \in DOMAIN characterFile
            /\ \A id \in NotCharacter(b) :
                  /\ id \notin DOMAIN names /\ id \notin DOMAIN memoryCache
                  /\ id \notin DOMAIN fileCache
                  /\ esiPc = "returned" => id \notin DOMAIN characterFile

\* A batch came back with a character and with an entry of another category.
C19_Witness ==
    /\ esiPc = "returned"
    /\ Len(batchLog) = 1
    /\ batchLog[1].ok
    /\ batchLog[1].characters # {}
    /\ batchLog[1].others # {}

\* ------------------------------------------------------------------ C20
\* The IDs the successful batches of this call returned as characters.
Resolved == UNION {batchLog[b].characters : b \in {c \in 1..Len(batchLog) : batchLog[c].ok}}

\* C20: a failed batch request adds nothing and stops nothing: the call goes
\* on to the next batch, it ends by returning, and what it returns are the
\* cache hits and the names of the batches that were answered.
C20_State ==
    /\ esiPc \in {"idle", "batch", "returned"}
    /\ (InCall /\ characterIds # <<>>) =>
          /\ DOMAIN names = CachedAtCall \cup Resolved
          /\ \A b \in 1..Len(batchLog) : ~batchLog[b].ok => batchLog[b].characters = {}
          /\ esiPc = "returned" => Len(batchLog) = (Len(uncachedIds) + 999) \div 1000

C20_Step ==
    (Len(batchLog') > Len(batchLog) /\ ~Last(batchLog').ok) =>
        /\ names' = names
        /\ memoryCache' = memoryCache
        /\ fileCache' = fileCache
        /\ esiPc' = IF Len(BatchIds) + Len(Last(batchLog').ids) < Len(uncachedIds)
                    THEN "batch" ELSE "returned"

C20_BatchFailureTolerated == []C20_State /\ [][C20_Step]_vars

\* The second of three batches failed: the call returned the names of the
\* first and the third.
C20_Witness ==
    /\ esiPc = "returned"
    /\ Len(batchLog) = 3
    /\ batchLog[1].ok /\ ~batchLog[2].ok /\ batchLog[3].ok
    /\ 2500 \in DOMAIN names
    /\ 1500 \notin DOMAIN names
    /\ CachedAtCall # {}
    /\ CachedAtCall \subseteq DOMAIN names

\* C21: the persisted name cache is updated after every batch, by merging:
\* when a batch request has completed, characters.json holds every entry it
\* held before plus the names accepted from that batch, so the names of a
\* completed batch are on disk before the next batch request is issued.
C21_Step ==
    Len(batchLog') > Len(batchLog) =>
        /\ DOMAIN characterFile \subseteq DOMAIN characterFile'
        /\ Last(batchLog').characters \subseteq DOMAIN characterFile'

C21_State ==
    esiPc = "batch" =>
        \A b \in 1..Len(batchLog) : batchLog[b].characters \subseteq DOMAIN characterFile

C21_AsStated == []C21_State /\ [][C21_Step]_vars

\* ------------------------------------------------------- aggregator claims
\* A kill report's record that was folded in and not excluded.
KillCounted ==
    /\ ~isLosses
    /\ processed > 0
    /\ curKillmail.victim.shipTypeID # CAPSULE_SHIP_ID

\* The attackers of the latest record that belong to the tracked corporation
\* and have a character identity.
Members ==
    {i \in 1..Len(curKillmail.attackers) :
        /\ curKillmail.attackers[i].corporationID = stats.corporationID
        /\ curKillmail.attackers[i].characterID # 0}

\* Those of them that flew the ship type s, not named as an escape pod.
Flying(s) ==
    {i \in Members : /\ curKillmail.attackers[i].shipTypeID = s
                     /\ curKillmail.attackers[i].shipTypeName # CAPSULE_SHIP_NAME}

\* Counters of an aggregator state, 0 where the aggregate does not exist.
KillsOf(st, c) == IF c \in DOMAIN st.participants THEN st.participants[c].totalKills ELSE 0

FinalBlowsOf(st, c) == IF c \in DOMAIN st.participants THEN st.participants[c].finalBlows ELSE 0

SignatureOf(st, c) == IF c \in DOMAIN st.participants THEN st.participants[c].shipSignature ELSE 0

ShipsOf(st, c) == IF c \in DOMAIN st.participants THEN st.participants[c].shipTypes ELSE EmptyMap

ShipCountOf(st, c, n) == IF n \in DOMAIN ShipsOf(st, c) THEN ShipsOf(st, c)[n] ELSE 0

ShipKills(st, s) == IF s \in DOMAIN st.shipTypes THEN st.shipTypes[s].totalKills ELSE 0

ShipKillsBy(st, s, c) ==
    IF s \in DOMAIN st.shipTypes /\ c \in DOMAIN st.shipTypes[s].participants
    THEN st.shipTypes[s].participants[c] ELSE 0

\* C22: a record whose victim ship type is the escape pod (670) leaves the
\* whole aggregator state as it was, in kill and in loss aggregation,
\* whatever its attackers, its victim's corporation and character, its value.
C22_PodVictimExcluded ==
    (processed > 0 /\ curKillmail.victim.shipTypeID = CAPSULE_SHIP_ID) =>
        stats = statsBefore

\* The pod of a member of the tracked corporation, with damage and value, is
\* folded into a loss aggregate that already counts a loss.
C22_Witness ==
    /\ isLosses
    /\ processed = 2
    /\ curKillmail.victim.shipTypeID = CAPSULE_SHIP_ID
    /\ curKillmail.victim.corporationID = stats.corporationID
    /\ curKillmail.victim.characterID = 1
    /\ curKillmail.victim.damageTaken > 0
    /\ curKillmail.zkb.totalValue > 0
    /\ statsBefore.totalLosses = 1
    /\ stats.totalLosses = 1

\* C23: in kill aggregation totalKills is the number of records folded in
\* minus those with an escape-pod victim, and no counter of the state is
\* lower after a record than before it.
C23_Monotone ==
    /\ stats.totalKills >= statsBefore.totalKills
    /\ \A c \in DOMAIN statsBefore.participants :
          /\ c \in DOMAIN stats.participants
          /\ KillsOf(stats, c) >= KillsOf(statsBefore, c)
          /\ FinalBlowsOf(stats, c) >= FinalBlowsOf(statsBefore, c)
          /\ SignatureOf(stats, c) >= SignatureOf(statsBefore, c)
          /\ \A n \in DOMAIN ShipsOf(statsBefore, c) :
                ShipCountOf(stats, c, n) >= ShipCountOf(statsBefore, c, n)
    /\ \A s \in DOMAIN statsBefore.shipTypes :
          /\ ShipKills(stats, s) >= ShipKills(statsBefore, s)
          /\ \A c \in DOMAIN statsBefore.shipTypes[s].participants :
                ShipKillsBy(stats, s, c) >= ShipKillsBy(statsBefore, s, c)

C24_AsStated ==
    KillCounted =>
        \A i \in Members :
            LET a == curKillmail.attackers[i] IN
            (a.shipTypeName = CAPSULE_SHIP_NAME /\ a.finalBlow) =>
                FinalBlowsOf(stats, a.characterID) = FinalBlowsOf(statsBefore, a.characterID) + 1

\* C25: a member whose ship-type name on a counted record is the escape-pod
\* name gets no kill credit for it: kill count, per-ship counts and signature
\* stay, no ship-type aggregate books the member, each ship type gains what
\* the other members flew, the record counts in totalKills.
C25_PodAttackerNotCredited ==
    KillCounted =>
        \A i \in Members :
            LET a == curKillmail.attackers[i]
                c == a.characterID
            IN a.shipTypeName = CAPSULE_SHIP_NAME =>
                /\ stats.totalKills = statsBefore.totalKills + 1
                /\ c \in DOMAIN stats.participants
                /\ KillsOf(stats, c) = KillsOf(statsBefore, c)
                /\ ShipsOf(stats, c) = ShipsOf(statsBefore, c)
                /\ SignatureOf(stats, c) = SignatureOf(statsBefore, c)
                /\ \A s \in DOMAIN stats.shipTypes :
                      /\ ShipKillsBy(stats, s, c) = ShipKillsBy(statsBefore, s, c)
                      /\ ShipKills(stats, s) = ShipKills(statsBefore, s) + Cardinality(Flying(s))
                /\ \A j \in Members \ {i} :
                      LET b == curKillmail.attackers[j] IN
                      (b.shipTypeID # 0 /\ b.shipTypeName # CAPSULE_SHIP_NAME) =>
                          KillsOf(stats, b.characterID) = KillsOf(statsBefore, b.characterID) + 1

\* Character 1, credited with a kill before, is listed in a pod next to
\* character 2 in a frigate: character 2 is credited, character 1 is not.
C25_Witness ==
    /\ KillCounted
    /\ processed = 2
    /\ Len(curKillmail.attackers) = 2
    /\ curKillmail.attackers[1].characterID = 1
    /\ curKillmail.attackers[1].shipTypeName = CAPSULE_SHIP_NAME
    /\ curKillmail.attackers[2].characterID = 2
    /\ KillsOf(statsBefore, 1) = 1
    /\ KillsOf(stats, 1) = 1
    /\ KillsOf(statsBefore, 2) = 0
    /\ KillsOf(stats, 2) = 1
    /\ stats.totalKills = 2

\* C26: for every member on a counted record who does not fly an escape
\* pod the record adds exactly one to the member's kill count, to the
\* member's count for the ship, to the ship type's kill count and to the ship
\* type's count for the member; the signature grows by one exactly when the
\* ship is new for the member, the finishing blows exactly when flagged.
C26_AsStated ==
    KillCounted =>
        \A i \in Members :
            LET a == curKillmail.attackers[i]
                c == a.characterID
                s == a.shipTypeID
                n == IF a.shipTypeName # "" THEN a.shipTypeName ELSE "Ship " \o ToString(s)
            IN a.shipTypeName # CAPSULE_SHIP_NAME =>
                /\ KillsOf(stats, c) = KillsOf(statsBefore, c) + 1
                /\ FinalBlowsOf(stats, c) =
                      FinalBlowsOf(statsBefore, c) + (IF a.finalBlow THEN 1 ELSE 0)
                /\ s # 0 =>
                      /\ ShipCountOf(stats, c, n) = ShipCountOf(statsBefore, c, n) + 1
                      /\ ShipKillsBy(stats, s, c) = ShipKillsBy(statsBefore, s, c) + 1
                      /\ ShipKills(stats, s) = ShipKills(statsBefore, s) + Cardinality(Flying(s))
                      /\ SignatureOf(stats, c) =
                            SignatureOf(statsBefore, c)
                            + (IF ShipCountOf(statsBefore, c, n) = 0 THEN 1 ELSE 0)

\* The characters of the latest record's members.
MemberCharacters == {curKillmail.attackers[i].characterID : i \in Members}

\* C27: kill aggregation credits the tracked corporation only: every
\* participant aggregate carries the tracked corporation's ID, and a record
\* creates or changes the aggregates of its members only, and the ship-type
\* aggregates of the ships they flew.
C27_TrackedCorporationOnly ==
    ~isLosses =>
        /\ \A c \in DOMAIN stats.participants :
              /\ stats.participants[c].corporationID = stats.corporationID
              /\ stats.participants[c].characterID = c
              /\ c # 0
        /\ processed > 0 =>
              /\ \A c \in DOMAIN stats.participants \ MemberCharacters :
                    /\ c \in DOMAIN statsBefore.participants
                    /\ stats.participants[c] = statsBefore.participants[c]
              /\ \A s \in DOMAIN stats.shipTypes :
                    /\ DOMAIN stats.shipTypes[s].participants \subseteq DOMAIN stats.participants
                    /\ Flying(s) = {} =>
                          /\ s \in DOMAIN statsBefore.shipTypes
                          /\ stats.shipTypes[s] = statsBefore.shipTypes[s]
                    /\ \A c \in DOMAIN stats.shipTypes[s].participants \ MemberCharacters :
                          ShipKillsBy(stats, s, c) = ShipKillsBy(statsBefore, s, c)

\* A counted record lists the finishing blow of another corporation's pilot
\* and nobody of the tracked corporation: the aggregates of the members
\* credited before stay as they were.
C27_Witness ==
    /\ KillCounted
    /\ processed = 2
    /\ Members = {}
    /\ \E i \in 1..Len(curKillmail.attackers) :
          /\ curKillmail.attackers[i].corporationID # stats.corporationID
          /\ curKillmail.attackers[i].characterID # 0
          /\ curKillmail.attackers[i].finalBlow
    /\ \E i \in 1..Len(curKillmail.attackers) : curKillmail.attackers[i].characterID = 0
    /\ DOMAIN statsBefore.participants = {1}
    /\ stats.participants = statsBefore.participants
    /\ stats.shipTypes = statsBefore.shipTypes
    /\ stats.totalKills = 2

\* The display name the fallback law gives a character of a record.
DisplayName(person) ==
    IF person.characterID \in DOMAIN characterNames
    THEN characterNames[person.characterID]
    ELSE IF person.characterName # ""
    THEN person.characterName \o " (" \o ToString(person.characterID) \o ")"
    ELSE "Character_" \o ToString(person.characterID)

\* The victim of the latest record was booked by loss aggregation.
LossCounted ==
    /\ isLosses
    /\ processed > 0
    /\ curKillmail.victim.corporationID = stats.corporationID
    /\ curKillmail.victim.characterID # 0
    /\ curKillmail.victim.shipTypeID # CAPSULE_SHIP_ID

\* C28: after a record is folded in, the display name of each member it
\* lists (kill aggregation) and of the victim it books (loss aggregation) is
\* the pre-loaded name when the mapping has an entry for the character,
\* otherwise "<rawName> (<X>)" when the record embeds a name, otherwise
\* "Character_<X>".
C28_NameFallbackLaw ==
    /\ KillCounted =>
          \A i \in Members :
              LET a == curKillmail.attackers[i] IN
              /\ a.characterID \in DOMAIN stats.participants
              /\ stats.participants[a.characterID].characterName = DisplayName(a)
    /\ LossCounted =>
          /\ curKillmail.victim.characterID \in DOMAIN stats.participants
          /\ stats.participants[curKillmail.victim.characterID].characterName
                = DisplayName(curKillmail.victim)

\* Without a resolved name, character 1 was first seen without a raw name
\* and is now listed with one.
C28_Witness ==
    /\ KillCounted
    /\ characterNames = EmptyMap
    /\ 1 \in DOMAIN statsBefore.participants
    /\ statsBefore.participants[1].characterName = "Character_1"
    /\ \E i \in Members : curKillmail.attackers[i].characterName = "Bob"
    /\ stats.participants[1].characterName = "Bob (1)"

\* C29: loss aggregation adds one to totalLosses for every record whose
\* victim belongs to the tracked corporation and did not fly an escape pod,
\* with or without character identity, and leaves it for every other record.
C29_AsStated ==
    (isLosses /\ processed > 0) =>
        stats.totalLosses =
            statsBefore.totalLosses
            + (IF /\ curKillmail.victim.corporationID = stats.corporationID
                  /\ curKillmail.victim.shipTypeID # CAPSULE_SHIP_ID
               THEN 1 ELSE 0)

\* Sums of a loss aggregator state, 0 where the aggregate does not exist.
LostValueOf(st, c) == IF c \in DOMAIN st.participants THEN st.participants[c].totalValue ELSE 0

DamageOf(st, c) == IF c \in DOMAIN st.participants THEN st.participants[c].damageTaken ELSE 0

ShipValue(st, s) == IF s \in DOMAIN st.shipTypes THEN st.shipTypes[s].totalValue ELSE 0

Single ==
    IF isLosses THEN LossStatisticsProcessKillmail(NewStats(TRUE), curKillmail)
    ELSE KillmailStatsProcessKillmail(NewStats(FALSE), curKillmail)

Twice(m) == [k \in DOMAIN m |-> 2 * m[k]]

\* A kill aggregator state with every count doubled and the signature
\* multiplied by f.
DoubledKills(st, f) ==
    [corporationID |-> st.corporationID,
     totalKills |-> 2 * st.totalKills,
     participants |->
        [c \in DOMAIN st.participants |->
            LET p == st.participants[c] IN
            [characterID |-> p.characterID,
             characterName |-> p.characterName,
             corporationID |-> p.corporationID,
             corporationName |-> p.corporationName,
             totalKills |-> 2 * p.totalKills,
             shipTypes |-> Twice(p.shipTypes),
             shipSignature |-> f * p.shipSignature,
             finalBlows |-> 2 * p.finalBlows]],
     shipTypes |->
        [s \in DOMAIN st.shipTypes |->
            LET t == st.shipTypes[s] IN
            [shipTypeID |-> t.shipTypeID,
             shipTypeName |-> t.shipTypeName,
             totalKills |-> 2 * t.totalKills,
             participants |-> Twice(t.participants)]]]

\* A loss aggregator state with every count and sum doubled.
DoubledLosses(st) ==
    [corporationID |-> st.corporationID,
     totalLosses |-> 2 * st.totalLosses,
     participants |->
        [c \in DOMAIN st.participants |->
            LET p == st.participants[c] IN
            [characterID |-> p.characterID,
             characterName |-> p.characterName,
             corporationID |-> p.corporationID,
             corporationName |-> p.corporationName,
             totalLosses |-> 2 * p.totalLosses,
             shipTypes |-> Twice(p.shipTypes),
             totalValue |-> 2 * p.totalValue,
             damageTaken |-> 2 * p.damageTaken]],
     shipTypes |->
        [s \in DOMAIN st.shipTypes |->
            LET t == st.shipTypes[s] IN
            [shipTypeID |-> t.shipTypeID,
             shipTypeName |-> t.shipTypeName,
             totalLosses |-> 2 * t.totalLosses,
             totalValue |-> 2 * t.totalValue,
             participants |-> Twice(t.participants)]]]

\* The latest record is the second one, it is not excluded, and the record
\* before it left a new aggregator where the latest one, folded in once,
\* leaves it: the same record was processed twice.
SameTwice ==
    /\ processed = 2
    /\ Single # NewStats(isLosses)
    /\ statsBefore = Single

\* C31 (as stated): processing the same non-excluded record twice leaves
\* the total and every participant and ship-type counter, the signature
\* included, at double the value of processing it once.
C31_AsStated ==
    SameTwice =>
        stats = IF isLosses THEN DoubledLosses(Single) ELSE DoubledKills(Single, 2)

\* C31 (amended): there is no de-duplication: processing the same
\* non-excluded record twice doubles the total, every kill, loss, per-ship
\* and finishing-blow count and every value and damage sum; the signature,
\* the number of distinct ships, is what it was after the first time.
C31_DoubleCounting ==
    SameTwice =>
        /\ stats = IF isLosses THEN DoubledLosses(Single) ELSE DoubledKills(Single, 1)
        /\ stats # statsBefore

\* A kill with a credited finishing blow folded in twice.
C31_Witness ==
    /\ ~isLosses
    /\ SameTwice
    /\ stats.totalKills = 2
    /\ 1 \in DOMAIN stats.participants
    /\ stats.participants[1].totalKills = 2
    /\ stats.participants[1].finalBlows = 2
    /\ stats.participants[1].shipSignature = 1
(***************************************************************************)
(* The participant ranking                                                 *)
(***************************************************************************)

\* The place of a character in the insertion order of the participants.
PlaceOf(characterID) ==
    CHOOSE i \in 1..Len(participantOrder) : participantOrder[i] = characterID

\* participant a is ranked before participant b: a larger key, or the same
\* key and an earlier insertion.
RankedBefore(a, b, sortBy) ==
    \/ rankKey(a, sortBy) > rankKey(b, sortBy)
    \/ /\ rankKey(a, sortBy) = rankKey(b, sortBy)
       /\ PlaceOf(a.characterID) < PlaceOf(b.characterID)

C32_State ==
    /\ \A i, j \in 1..Len(participantOrder) :
          i # j => participantOrder[i] # participantOrder[j]
    /\ {participantOrder[i] : i \in 1..Len(participantOrder)} = DOMAIN stats.participants
    /\ ranking # Null =>
          LET result == ranking.result
              ranked == {result[i].characterID : i \in 1..Len(result)}
          IN /\ Len(result) = Min(ranking.limit, Cardinality(DOMAIN stats.participants))
             /\ \A i \in 1..Len(result) :
                   /\ result[i].characterID \in DOMAIN stats.participants
                   /\ result[i] = stats.participants[result[i].characterID]
             /\ \A i, j \in 1..Len(result) :
                   i < j => RankedBefore(result[i], result[j], ranking.sortBy)
             /\ \A id \in DOMAIN stats.participants \ ranked :
                   \A i \in 1..Len(result) :
                      RankedBefore(result[i], stats.participants[id], ranking.sortBy)

C32_Step ==
    ranking' # ranking =>
        /\ stats' = stats
        /\ participantOrder' = participantOrder
        /\ ranking'.result = getParticipantRanking(ranking'.sortBy, ranking'.limit)

\* C32: getParticipantRanking returns the participant aggregates sorted by
\* the selected key in descending order (kills by default for kills, losses
\* for losses), participants with equal keys in the order in which they
\* entered the Map, cut to the first limit entries, and leaves the
\* aggregator's state as it was.
C32_RankingSortedStableTruncated == []C32_State /\ [][C32_Step]_vars

\* Two participants with the same number of kills, the one seen first with
\* the larger character ID, ranked with and without truncation in view.
C32_Witness ==
    /\ ~isLosses
    /\ ranking # Null
    /\ ranking.sortBy = "kills"
    /\ ranking.limit = 1
    /\ participantOrder = <<2, 1>>
    /\ stats.participants[1].totalKills = stats.participants[2].totalKills
    /\ Len(ranking.result) = 1
    /\ ranking.result[1].characterID = 2

(***************************************************************************)
(* Consistency of the sums                                                 *)
(***************************************************************************)

\* The sum of the values of a finite map of numbers.
RECURSIVE SumOf(_)
SumOf(m) ==
    IF DOMAIN m = {} THEN 0
    ELSE LET k == CHOOSE k \in DOMAIN m : TRUE
         IN m[k] + SumOf([x \in DOMAIN m \ {k} |-> m[x]])

\* C37: in kill aggregation, after any sequence of records, every
\* participant's totalKills is the sum of its per-ship counts and its
\* shipSignature the number of ship names in its per-ship map, every ship
\* type's totalKills is the sum of its per-participant breakdown, and the
\* participants' totalKills add up to the ship types' totalKills.
C37_KillSumsConsistent ==
    ~isLosses =>
        /\ \A c \in DOMAIN stats.participants :
              /\ stats.participants[c].totalKills = SumOf(stats.participants[c].shipTypes)
              /\ stats.participants[c].shipSignature =
                    Cardinality(DOMAIN stats.participants[c].shipTypes)
        /\ \A s \in DOMAIN stats.shipTypes :
              stats.shipTypes[s].totalKills = SumOf(stats.shipTypes[s].participants)
        /\ SumOf([c \in DOMAIN stats.participants |-> stats.participants[c].totalKills])
              = SumOf([s \in DOMAIN stats.shipTypes |-> stats.shipTypes[s].totalKills])

\* Two records: a member credited twice in the same ship next to a second
\* member, so that counts and signature differ.
C37_Witness ==
    /\ ~isLosses
    /\ processed = 2
    /\ DOMAIN stats.participants = {1, 2}
    /\ stats.participants[1].totalKills = 2
    /\ stats.participants[1].shipSignature = 1
    /\ stats.participants[2].totalKills = 1
    /\ \E s \in DOMAIN stats.shipTypes : stats.shipTypes[s].totalKills = 3

RequestedIds == {characterIds[j] : j \in 1..Len(characterIds)}

SentIds == {uncachedIds[j] : j \in 1..Len(uncachedIds)}

\* m keeps every entry of k.
Keeps(m, k) == \A id \in DOMAIN k : id \in DOMAIN m /\ m[id] = k[id]

C40_State ==
    /\ InCall =>
          /\ SentIds = RequestedIds \ (DOMAIN memAtCall \cup DOMAIN fileAtCall)
          /\ \A id \in RequestedIds \cap DOMAIN memAtCall :
                id \in DOMAIN names /\ names[id] = memAtCall[id]
          /\ Keeps(memoryCache, memAtCall)
    /\ esiPc = "returned" =>
          LET unresolved == RequestedIds \ DOMAIN names
          IN /\ Keeps(memoryCache, names)
             /\ unresolved \subseteq SentIds
             /\ unresolved \cap DOMAIN memoryCache = {}
             /\ unresolved \cap DOMAIN characterFile = {}

C40_Step ==
    /\ \/ memoryCache' = EmptyMap /\ esiPc' = "idle" /\ names' = EmptyMap
       \/ Keeps(memoryCache', memoryCache)
    /\ (esiPc = "idle" /\ esiPc' # "idle") =>
          LET requested == {characterIds'[j] : j \in 1..Len(characterIds')}
              sent == {uncachedIds'[j] : j \in 1..Len(uncachedIds')}
          IN /\ sent \cap DOMAIN memoryCache = {}
             /\ \A id \in requested \cap DOMAIN memoryCache : names'[id] = memoryCache[id]
             /\ requested \ (DOMAIN memoryCache \cup DOMAIN characterFile) \subseteq sent
    /\ characterFile' # characterFile =>
          \/ esiPc = "idle" /\ esiPc' = "idle"
          \/ esiPc = "batch" /\ uncachedIds # <<>> /\ esiPc' = "returned"

\* C40: on one ESI object, an ID that getCharacterNames resolved (from a
\* cache or from an accepted batch entry) is held by the object from then
\* on, and a later call neither sends it in a batch request nor returns
\* another name for it; an ID that stayed unresolved is recorded nowhere,
\* and a call sends every ID that is in neither cache; characters.json is
\* written only by a call that had an uncached ID.
C40_NameCacheAcrossCalls == []C40_State /\ [][C40_Step]_vars

\* A later call on the same object: one ID resolved by an earlier batch is
\* answered from memory though characters.json no longer holds it, the
\* other was sent again and stayed unresolved again.
C40_Witness ==
    /\ esiPc = "returned"
    /\ RequestedIds = {1, 2}
    /\ 1 \in DOMAIN memAtCall
    /\ 1 \notin DOMAIN fileAtCall
    /\ memAtCall[1] = "a"
    /\ names = [x \in {1} |-> "a"]
    /\ SentIds = {2}
    /\ Len(batchLog) = 1
    /\ 2 \notin DOMAIN characterFile

(***************************************************************************)
(* The finishing blow, from the detail response to the count               *)
(***************************************************************************)

\* The record the latest detail response was transformed into.
Record == IF transformed # Null THEN transformed ELSE curKillmail

\* C33: when the detail response gives final_blow for none of its
\* attackers, the transformed record flags the attacker at position 0 and
\* no attacker at a later position.
C33_FinalBlowFallback ==
    (esiData # Null /\ \A i \in 1..Len(esiData.attackers) :
                          esiData.attackers[i].final_blow = "omitted") =>
        /\ Len(Record.attackers) = Len(esiData.attackers)
        /\ \A i \in 1..Len(Record.attackers) : Record.attackers[i].finalBlow <=> i = 1

C33_Witness ==
    /\ transformed # Null
    /\ Len(esiData.attackers) = 2
    /\ \A i \in 1..2 : esiData.attackers[i].final_blow = "omitted"
    /\ transformed.attackers[1].finalBlow
    /\ ~transformed.attackers[2].finalBlow

\* The transform as C39 states it: position 0 flagged whatever the source
\* says, every later position with the flag of the source.
C39_Flags ==
    esiData # Null =>
        /\ Len(Record.attackers) = Len(esiData.attackers)
        /\ \A i \in 1..Len(Record.attackers) :
              Record.attackers[i].finalBlow <=>
                 (i = 1 \/ esiData.attackers[i].final_blow = "true")

\* C39 (as stated): position 0 is flagged whatever the source says, later
\* positions keep the flag of the source, and when the source flags a later
\* position and both flagged attackers belong to the tracked corporation,
\* kill aggregation credits a finishing blow to both.
C39_AsStated ==
    /\ C39_Flags
    /\ (esiData # Null /\ transformed = Null) =>
          \A i \in 2..Len(esiData.attackers) :
             (/\ esiData.attackers[i].final_blow = "true"
              /\ esiData.attackers[1].corporation_id = stats.corporationID
              /\ esiData.attackers[i].corporation_id = stats.corporationID) =>
                /\ FinalBlowsOf(stats, esiData.attackers[1].character_id)
                      = FinalBlowsOf(statsBefore, esiData.attackers[1].character_id) + 1
                /\ FinalBlowsOf(stats, esiData.attackers[i].character_id)
                      = FinalBlowsOf(statsBefore, esiData.attackers[i].character_id) + 1

(***************************************************************************)
(* The corporation ID at startup                                           *)
(***************************************************************************)

\* A string that is a positive integer: digits only, not all of them 0.
IsPositiveInteger(str) ==
    /\ str # <<>>
    /\ \A i \in 1..Len(str) : str[i] \in Digits
    /\ \E i \in 1..Len(str) : str[i] # "0"

\* No request was sent and no cache or report file written.
NothingDone ==
    /\ listReqs = <<>>
    /\ fetchLog = <<>>
    /\ batchLog = <<>>
    /\ disk = [k \in Kinds |-> EmptyMap]
    /\ characterFile = EmptyMap
    /\ ~report

\* C34 (as stated): with a --corp value that is not numeric or not a
\* positive integer the process ends with exit code 1, and until then no
\* request is sent and no file written.
C34_AsStated ==
    ~IsPositiveInteger(corp) =>
        /\ startPc \in {"start", "exit1"}
        /\ apiCorporationID = Null
        /\ NothingDone

(***************************************************************************)
(* Paging to the end                                                       *)
(***************************************************************************)

Paging == pc \in {"list", "drain", "save", "pageDelay"}

C35_Step ==
    /\ pc = "idle" => pc' \in {"idle", "list"}
    /\ pc = "list" => pc' \in {"list", "drain", "save", "done", "aborted"}
    /\ (pc = "list" /\ pc' = "drain") => (PageOf(page) # <<>> /\ needFetch' # <<>>)
    /\ (pc = "list" /\ pc' = "save") => needFetch' = <<>>
    /\ pc = "drain" => pc' \in {"drain", "save"}
    /\ pc = "save" => pc' \in {"save", "pageDelay", "done"}
    /\ (pc = "save" /\ pc' = "pageDelay") => (data # <<>> /\ page' = page + 1)
    /\ (pc = "save" /\ pc' = "done") => (data = <<>> /\ page' = page)
    /\ pc = "pageDelay" => (pc' \in {"pageDelay", "list"} /\ page' = page)
    /\ pc = "done" => pc' \in {"done", "exited"}

\* C35: when every request gets a response and the listing ends with an
\* empty page, a run that is paging reaches Done, or is aborted by a failed
\* list request; on the way every non-empty page leads from Paging through
\* the drain of its misses and the save back to Paging with the next page,
\* and only a page without summaries leads to Done.
C35_PagingTerminates ==
    /\ [][C35_Step]_vars
    /\ Paging ~> pc \in {"done", "aborted"}

\* A run that paged through a full long listing, drained a miss on the way,
\* and is done.
C35_Witness ==
    /\ pc = "done"
    /\ Len(listing) = MaxListed
    /\ page = MaxListed + 1
    /\ \E i \in 1..Len(fetchLog) : fetchLog[i].ok
    /\ \A i \in 1..Len(listResps) : listResps[i].status = "array"

C36_State ==
    /\ \A i \in 1..Len(listReqs) : listReqs[i] = i
    /\ (pc \in {"done", "exited"} /\ \A i \in 1..Len(listResps) : listResps[i].status = "array")
          => Len(listReqs) = Len(listing) + 1
    /\ pc \in {"done", "exited"} => listResps[Len(listResps)].raw = 0
    /\ \A i \in 1..Len(listResps) :
          (listResps[i].raw > 0 /\ (i < Len(listResps) \/ pc = "list")) => Len(listReqs) > i

\* C36: the number of list requests of a run is decided by the endpoint
\* alone: the run requests pages 1, 2, ... until a response has no
\* summaries, and ends paging at no other point; after a non-empty page
\* maxPages the request for page maxPages + 1 follows.
C36_MaxPagesDoesNotBound ==
    /\ []C36_State
    /\ (Len(listResps) = maxPages /\ listResps[maxPages].raw > 0) ~> Len(listReqs) > maxPages

\* Page maxPages + 1 was requested and the run ended on its empty response.
C36_Witness ==
    /\ pc = "exited"
    /\ Len(listing) = maxPages
    /\ Len(listReqs) = maxPages + 1
    /\ listReqs[maxPages + 1] = maxPages + 1
    /\ listResps[maxPages].raw > 0
    /\ \A i \in 1..Len(listResps) : listResps[i].status = "array"

================================================================
